---- MODULE Spec2Model ----
(***************************************************************************)
(* CodePack (src/src/index.js): discovery and classification of the files  *)
(* of a directory tree, the nine output strategies, and the orchestration  *)
(* of a run by compress() and generateAllFormats().                        *)
(*                                                                         *)
(* A path is a sequence of segments, a text a sequence of one-character    *)
(* strings.  String tests of the source that TLC cannot compute on strings *)
(* (extname, includes) are tables over the segment names of the universe.  *)
(***************************************************************************)
EXTENDS Integers, Sequences, FiniteSets, TLC

VARIABLES
  opts,           \* the configuration built by CodePackBuilder (immutable fields of the instance)
  format,         \* this.format
  tree,           \* the file system under inputPath: path -> [size, statOk, readOk, text]
  gitignoreFile,  \* the .gitignore of the root: [exists, readable, rules]
  pc,             \* position of the run inside compress()
  files,          \* the included-file array returned by getFiles() and shared by the strategies
  skippedFiles,   \* this.skippedFiles
  errors,         \* this.errors
  gitignoreFilter,\* this.gitignoreFilter
  io,             \* kinds of file-system calls issued so far
  docs,           \* the document generated for each format so far
  outputSize,     \* the local outputSize of compress()
  i,              \* the loop index of generateAllFormats
  results,        \* the results array of generateAllFormats
  written,        \* the writeFile calls that succeeded, in order
  exitCode,       \* argument of process.exit, or NoExit
  errorMessage,   \* the message printed by the catch block of compress()
  format0,        \* history: this.format when generateAllFormats was called
  thrown          \* history: the formats whose generation or write threw

vars == <<opts, format, tree, gitignoreFile, pc, files, skippedFiles, errors,
          gitignoreFilter, io, docs, outputSize, i, results, written,
          exitCode, errorMessage, format0, thrown>>

-----------------------------------------------------------------------------
(* Bounds *)

\* at most this many iterations of one all-formats run throw
MaxFaults == 1

-----------------------------------------------------------------------------
(* Program constants *)

MAX_FILE_SIZE_KB == 500
BYTES_PER_KB == 1024

OUTPUT_FORMATS ==
  <<"markdown", "json", "yaml", "toml", "msgpack", "mdyaml", "dsl", "jsonld", "mdopt">>

EXCLUDE_PATTERNS ==
  <<"node_modules", "dist", "build", ".git", ".next", "coverage",
    "venv", "env", ".venv", ".env", "virtualenv",
    "__pycache__", "*.pyc", ".pytest_cache",
    "target", "vendor", ".cargo",
    "*.log", "*.tmp", "*.cache", "yarn.lock", "package-lock.json",
    ".DS_Store", "Thumbs.db">>

Range(s) == {s[k] : k \in 1..Len(s)}

-----------------------------------------------------------------------------
(* Texts and the regular-expression steps of the content transformations *)

NL == "\n"
SP == " "
TAB == "\t"

IsWs(c) == c \in {SP, NL, TAB}

\* ^ of a /m regex: start of text or just after a newline
AtLineStart(s, k) == k = 1 \/ s[k - 1] = NL
\* $ of a /m regex: end of text or just before a newline
AtLineEnd(s, k) == k = Len(s) + 1 \/ s[k] = NL

\* last index of the maximal whitespace run starting at k (k-1 when s[k] is not whitespace)
RECURSIVE WsRunEnd(_, _)
WsRunEnd(s, k) == IF k <= Len(s) /\ IsWs(s[k]) THEN WsRunEnd(s, k + 1) ELSE k - 1

\* last index of the maximal run of spaces and tabs starting at k
RECURSIVE BlankRunEnd(_, _)
BlankRunEnd(s, k) == IF k <= Len(s) /\ s[k] \in {SP, TAB} THEN BlankRunEnd(s, k + 1) ELSE k - 1

\* last index of the maximal run of newlines starting at k
RECURSIVE NlRunEnd(_, _)
NlRunEnd(s, k) == IF k <= Len(s) /\ s[k] = NL THEN NlRunEnd(s, k + 1) ELSE k - 1

NewlinesIn(s, a, b) == Cardinality({k \in a..b : s[k] = NL})

Max(S) == CHOOSE x \in S : \A y \in S : y <= x
Min(S) == CHOOSE x \in S : \A y \in S : x <= y

\* .replace(/\n\s*\n\s*\n/g, '\n\n'): a whitespace run that starts at a newline and
\* holds three newlines or more is matched up to its last newline
RECURSIVE CollapseBlankLinesFrom(_, _)
CollapseBlankLinesFrom(s, k) ==
  IF k > Len(s) THEN <<>>
  ELSE IF s[k] = NL /\ NewlinesIn(s, k, WsRunEnd(s, k)) >= 3
       THEN LET last == Max({m \in k..WsRunEnd(s, k) : s[m] = NL})
            IN  <<NL, NL>> \o CollapseBlankLinesFrom(s, last + 1)
       ELSE <<s[k]>> \o CollapseBlankLinesFrom(s, k + 1)
CollapseBlankLines(s) == CollapseBlankLinesFrom(s, 1)

\* .replace(/^\s+$/gm, '') and the non-empty matches of .replace(/^\s*$/gm, ''):
\* from a line start, the longest whitespace stretch that ends at a line end
RECURSIVE RemoveWhitespaceLinesFrom(_, _)
RemoveWhitespaceLinesFrom(s, k) ==
  IF k > Len(s) THEN <<>>
  ELSE LET ends == {m \in (k + 1)..(WsRunEnd(s, k) + 1) : AtLineEnd(s, m)}
       IN  IF AtLineStart(s, k) /\ ends # {}
           THEN RemoveWhitespaceLinesFrom(s, Max(ends))
           ELSE <<s[k]>> \o RemoveWhitespaceLinesFrom(s, k + 1)
RemoveWhitespaceLines(s) == RemoveWhitespaceLinesFrom(s, 1)

\* .replace(/[ \t]+$/gm, '')
RECURSIVE RemoveTrailingWhitespaceFrom(_, _)
RemoveTrailingWhitespaceFrom(s, k) ==
  IF k > Len(s) THEN <<>>
  ELSE IF s[k] \in {SP, TAB} /\ AtLineEnd(s, BlankRunEnd(s, k) + 1)
       THEN RemoveTrailingWhitespaceFrom(s, BlankRunEnd(s, k) + 1)
       ELSE <<s[k]>> \o RemoveTrailingWhitespaceFrom(s, k + 1)
RemoveTrailingWhitespace(s) == RemoveTrailingWhitespaceFrom(s, 1)

\* .replace(/\/\*[\s\S]*?\*\//g, '')
RECURSIVE RemoveBlockCommentsFrom(_, _)
RemoveBlockCommentsFrom(s, k) ==
  IF k > Len(s) THEN <<>>
  ELSE LET closes == {m \in (k + 2)..(Len(s) - 1) : s[m] = "*" /\ s[m + 1] = "/"}
       IN  IF k + 1 <= Len(s) /\ s[k] = "/" /\ s[k + 1] = "*" /\ closes # {}
           THEN RemoveBlockCommentsFrom(s, Min(closes) + 2)
           ELSE <<s[k]>> \o RemoveBlockCommentsFrom(s, k + 1)
RemoveBlockComments(s) == RemoveBlockCommentsFrom(s, 1)

\* .replace(/\/\/.*$/gm, '')
RECURSIVE RemoveLineCommentsFrom(_, _)
RemoveLineCommentsFrom(s, k) ==
  IF k > Len(s) THEN <<>>
  ELSE IF k + 1 <= Len(s) /\ s[k] = "/" /\ s[k + 1] = "/"
       THEN RemoveLineCommentsFrom(s, Min({m \in k..(Len(s) + 1) : AtLineEnd(s, m)}))
       ELSE <<s[k]>> \o RemoveLineCommentsFrom(s, k + 1)
RemoveLineComments(s) == RemoveLineCommentsFrom(s, 1)

\* String.prototype.trim
RECURSIVE TrimLeft(_)
TrimLeft(s) == IF s # <<>> /\ IsWs(s[1]) THEN TrimLeft(Tail(s)) ELSE s
RECURSIVE TrimRight(_)
TrimRight(s) ==
  IF s # <<>> /\ IsWs(s[Len(s)]) THEN TrimRight(SubSeq(s, 1, Len(s) - 1)) ELSE s
Trim(s) == TrimRight(TrimLeft(s))

\* .replace(/\n{3,}/g, '\n\n')
RECURSIVE LimitNewlinesFrom(_, _)
LimitNewlinesFrom(s, k) ==
  IF k > Len(s) THEN <<>>
  ELSE IF s[k] = NL /\ NlRunEnd(s, k) - k + 1 >= 3
       THEN <<NL, NL>> \o LimitNewlinesFrom(s, NlRunEnd(s, k) + 1)
       ELSE <<s[k]>> \o LimitNewlinesFrom(s, k + 1)
LimitNewlines(s) == LimitNewlinesFrom(s, 1)

\* .replace(/\s+/g, ' ')
RECURSIVE CollapseWhitespaceFrom(_, _)
CollapseWhitespaceFrom(s, k) ==
  IF k > Len(s) THEN <<>>
  ELSE IF IsWs(s[k])
       THEN <<SP>> \o CollapseWhitespaceFrom(s, WsRunEnd(s, k) + 1)
       ELSE <<s[k]>> \o CollapseWhitespaceFrom(s, k + 1)
CollapseWhitespace(s) == CollapseWhitespaceFrom(s, 1)

\* .replace(/\s*c\s*/g, 'c') for one punctuation character c
RECURSIVE StripAroundFrom(_, _, _)
StripAroundFrom(s, c, k) ==
  IF k > Len(s) THEN <<>>
  ELSE LET p == WsRunEnd(s, k) + 1
       IN  IF p <= Len(s) /\ s[p] = c
           THEN <<c>> \o StripAroundFrom(s, c, WsRunEnd(s, p + 1) + 1)
           ELSE <<s[k]>> \o StripAroundFrom(s, c, k + 1)
StripAround(s, c) == StripAroundFrom(s, c, 1)

\* .replace(/\n{2,}/g, '\n') and, with keep = <<>>, .replace(/\n+/g, '')
RECURSIVE SqueezeNewlinesFrom(_, _, _, _)
SqueezeNewlinesFrom(s, least, keep, k) ==
  IF k > Len(s) THEN <<>>
  ELSE IF s[k] = NL /\ NlRunEnd(s, k) - k + 1 >= least
       THEN keep \o SqueezeNewlinesFrom(s, least, keep, NlRunEnd(s, k) + 1)
       ELSE <<s[k]>> \o SqueezeNewlinesFrom(s, least, keep, k + 1)
SqueezeNewlines(s, least, keep) == SqueezeNewlinesFrom(s, least, keep, 1)

\* .replace(/\)\s*{\s*/g, '){')
RECURSIVE JoinParenBraceFrom(_, _)
JoinParenBraceFrom(s, k) ==
  IF k > Len(s) THEN <<>>
  ELSE LET p == WsRunEnd(s, k + 1) + 1
       IN  IF s[k] = ")" /\ p <= Len(s) /\ s[p] = "{"
           THEN <<")", "{">> \o JoinParenBraceFrom(s, WsRunEnd(s, p + 1) + 1)
           ELSE <<s[k]>> \o JoinParenBraceFrom(s, k + 1)
JoinParenBrace(s) == JoinParenBraceFrom(s, 1)

optimizeContent(content) ==
  Trim(RemoveLineComments(RemoveBlockComments(
    RemoveTrailingWhitespace(RemoveWhitespaceLines(CollapseBlankLines(content))))))

optimizeContentForSize(content) ==
  Trim(CollapseWhitespace(RemoveTrailingWhitespace(LimitNewlines(
    RemoveWhitespaceLines(RemoveLineComments(RemoveBlockComments(content)))))))

\* The texts of the model hold no import statement and no function keyword, so the
\* two keyword-anchored replacements (lines 1102-1105 and 1114) match nothing.
aggressiveSmartOptimize(content, ext) ==
  LET base == optimizeContent(content)
      js   == SqueezeNewlines(JoinParenBrace(
                StripAround(StripAround(StripAround(StripAround(StripAround(
                StripAround(StripAround(base, "="), "("), ")"), "{"), "}"), ","), ";")),
                2, <<NL>>)
      afterJs == IF ext \in {"js", "jsx", "ts", "tsx"} THEN js ELSE base
      css  == SqueezeNewlines(
                StripAround(StripAround(StripAround(StripAround(afterJs, "{"), "}"), ":"), ";"),
                1, <<>>)
  IN  Trim(IF ext \in {"css", "scss"} THEN css ELSE afterJs)

-----------------------------------------------------------------------------
(* Paths of the universe and the string tables over their segments *)

README   == <<"README.md">>
IndexJs  == <<"src", "index.js">>
BigJs    == <<"src", "big.js">>
LogoPng  == <<"logo.png">>
DepJs    == <<"node_modules", "dep.js">>
NotesBak == <<"notes.bak">>
TmpJs    == <<"tmp", "gen.js">>
DeepJs   == <<"src", "tmp", "deep.js">>

\* the paths in the order of String.prototype.localeCompare
PathOrder ==
  << <<"app.test.js">>, <<"app", "page.js">>, <<"lib", "node_modules", "dep.js">>, LogoPng, <<"main.py">>, DepJs, NotesBak,
     <<"package.json">>, <<"pkg", "__init__.py">>, README, <<"server.js">>, <<"src", "api", "users.js">>, BigJs, <<"src", "components", "Button.js">>, IndexJs,
     <<"src", "models", "user.js">>, DeepJs, <<"src", "utils", "helpers.js">>,
     <<"styles", "main.css">>, <<"test", "app.test.js">>, TmpJs >>
Universe == Range(PathOrder)

LocaleRank(p) == CHOOSE k \in 1..Len(PathOrder) : PathOrder[k] = p

\* path.basename, path.extname, path.dirname
basename(p) == p[Len(p)]
extnameOfSegment(seg) ==
  CASE seg \in {"index.js", "big.js", "dep.js", "gen.js", "deep.js", "app.test.js",
                "users.js", "Button.js", "user.js", "helpers.js", "page.js",
                "server.js"} -> ".js"
    [] seg \in {"main.py", "__init__.py"} -> ".py"
    [] seg = "package.json" -> ".json"
    [] seg = "main.css"  -> ".css"
    [] seg = "README.md" -> ".md"
    [] seg = "logo.png"  -> ".png"
    [] seg = "notes.bak" -> ".bak"
    [] OTHER -> ""
extname(p) == extnameOfSegment(basename(p))
dirname(p) == SubSeq(p, 1, Len(p) - 1)

\* String.prototype.toLowerCase on a segment
toLowerCase(seg) ==
  CASE seg = "README.md" -> "readme.md" [] seg = "Button.js" -> "button.js" [] OTHER -> seg

\* a segment that starts with a dot (not matched by '**/*' under dot: false)
IsDotSegment(seg) == seg \in {".git", ".next", ".venv", ".env", ".cargo", ".pytest_cache", ".DS_Store"}

\* String.prototype.includes(probe) for a probe without '/', on one segment
SegmentIncludes(seg, probe) ==
  CASE seg = "index.js"    -> probe \in {"index."}
    [] seg = "app.test.js" -> probe \in {"app.", ".test.", "test"}
    [] seg = "main.css"    -> probe \in {"main."}
    [] seg = "main.py"     -> probe \in {"main.", "main.py"}
    [] seg = "server.js"   -> probe \in {"server.js"}
    [] seg = "helpers.js"  -> probe \in {"helper"}
    [] seg = "test"        -> probe \in {"test"}
    [] seg = "components"  -> probe \in {"component"}
    [] seg = "api"         -> probe \in {"api"}
    [] seg = "models"      -> probe \in {"model"}
    [] seg = "utils"       -> probe \in {"util"}
    [] OTHER -> FALSE

\* the extension of a path with its leading dot dropped: path.extname(file).substring(1)
extWithoutDot(p) ==
  CASE extname(p) = ".js"  -> "js"
    [] extname(p) = ".md"  -> "md"
    [] extname(p) = ".json" -> "json"
    [] extname(p) = ".py"  -> "py"
    [] extname(p) = ".css" -> "css"
    [] extname(p) = ".png" -> "png"
    [] extname(p) = ".bak" -> "bak"
    [] OTHER -> ""

-----------------------------------------------------------------------------
(* Discovery and classification: loadGitignore, getFiles *)

\* this.gitignoreFilter: null, or the ignore() instance with its rules
NoFilter == [active |-> FALSE, rules |-> {}]

NoGitignore == [exists |-> FALSE, readable |-> FALSE, rules |-> {}]

\* one segment against one exclude pattern: '*.ext' or a literal name
StarSuffix(pattern) ==
  CASE pattern = "*.pyc"   -> ".pyc"
    [] pattern = "*.log"   -> ".log"
    [] pattern = "*.tmp"   -> ".tmp"
    [] pattern = "*.cache" -> ".cache"
    [] OTHER -> ""
MatchSegment(pattern, seg) ==
  IF StarSuffix(pattern) # "" THEN extnameOfSegment(seg) = StarSuffix(pattern)
  ELSE seg = pattern

\* the three ignore globs built for one exclude pattern
MatchesTopLevel(pattern, p) == Len(p) >= 2 /\ MatchSegment(pattern, p[1])
MatchesAnyLevel_Never(pattern, p) == FALSE

MatchesAnyLevel(pattern, p) == \E k \in 1..(Len(p) - 1) : MatchSegment(pattern, p[k])
MatchesExact(pattern, p)    == MatchSegment(pattern, p[Len(p)])

GlobIgnored(excludePatterns, p) ==
  \E pattern \in Range(excludePatterns) :
    MatchesTopLevel(pattern, p) \/ MatchesAnyLevel(pattern, p) \/ MatchesExact(pattern, p)

\* glob('**/*', {cwd, ignore, nodir: true, dot: false}): sorted, without dot entries
GlobResult(fsTree, excludePatterns) ==
  SelectSeq(PathOrder,
    LAMBDA p : /\ p \in DOMAIN fsTree
               /\ \A k \in 1..Len(p) : ~IsDotSegment(p[k])
               /\ ~GlobIgnored(excludePatterns, p))

\* loadGitignore: the filter, the error it records and the calls it makes
loadGitignore(respect, gi) ==
  IF ~respect THEN [filter |-> NoFilter, errs |-> <<>>, calls |-> {}]
  ELSE IF ~gi.exists THEN [filter |-> NoFilter, errs |-> <<>>, calls |-> {"existsSync"}]
  ELSE IF ~gi.readable
       THEN [filter |-> NoFilter,
             errs |-> <<[kind |-> "Failed to read .gitignore", file |-> <<".gitignore">>]>>,
             calls |-> {"existsSync", "readGitignore"}]
  ELSE [filter |-> [active |-> TRUE, rules |-> gi.rules \cup {".git"}], errs |-> <<>>,
        calls |-> {"existsSync", "readGitignore"}]

ignores_Never(filter, p) == FALSE

\* ig.ignores(file) for rules that are bare names: a rule matches the entry of
\* that name at any depth, and everything below it
ignores(filter, p) == \E k \in 1..Len(p) : p[k] \in filter.rules

DependencyMarkers ==
  {"venv", "env", ".venv", "virtualenv", "site-packages", "__pycache__", "node_modules"}

\* filePath.includes('/venv/') ...: a marker segment with a '/' on both sides
InDependencyDirectory(p) ==
  \E k \in 2..(Len(p) - 1) : toLowerCase(p[k]) \in DependencyMarkers

isBinaryFile(ext) ==
  ext \in {".exe", ".dll", ".so", ".dylib", ".a", ".lib",
           ".jpg", ".jpeg", ".png", ".gif", ".ico", ".svg", ".webp", ".bmp",
           ".zip", ".tar", ".gz", ".rar", ".7z",
           ".pdf", ".doc", ".docx", ".xls", ".xlsx",
           ".mp3", ".mp4", ".avi", ".mov", ".wmv",
           ".ttf", ".woff", ".woff2", ".eot",
           ".bin", ".dat", ".db", ".sqlite"}

isSourceFile(ext, filename) ==
  \/ basename(filename) \in
       {"package.json", "tsconfig.json", "webpack.config.js", "babel.config.js",
        "tailwind.config.js", "next.config.js", "vite.config.js", "rollup.config.js",
        "jest.config.js", "eslint.config.js", ".eslintrc.js", ".eslintrc.json",
        "prettier.config.js", ".prettierrc", "docker-compose.yml", "Dockerfile",
        "README.md", "CLAUDE.md", "CONTRIBUTING.md", "LICENSE", ".gitignore"}
  \/ ext \in {".js", ".jsx", ".ts", ".tsx", ".vue", ".svelte",
              ".py", ".java", ".go", ".rs", ".rb", ".php",
              ".c", ".cpp", ".h", ".hpp", ".cs",
              ".html", ".css", ".scss", ".sass", ".less",
              ".json", ".xml", ".yml", ".yaml", ".toml",
              ".sql", ".graphql", ".proto",
              ".sh", ".bash", ".zsh", ".fish",
              ".txt", ".env.example"}
  \/ (ext = "" /\ basename(filename) \in {"Dockerfile", "Makefile", "Rakefile"})

\* Math.round(stats.size / 1024)
RoundKB(bytes) == (bytes + 512) \div 1024

ExceedsMaxFileSize_AtLeast(size, maxFileSize) == size >= maxFileSize

\* stats.size > this.maxFileSize
ExceedsMaxFileSize(size, maxFileSize) == size > maxFileSize

IsKept_AlsoLarge(verdict) == verdict \in {"included", "tooLarge"}

\* the filter callback returns true only at its last line
IsKept(verdict) == verdict = "included"

\* what the filter callback of getFiles does with one path of the glob result
Verdict_ChecksFirst(filter, fsTree, maxFileSize, p) ==
  IF isBinaryFile(toLowerCase(extname(p))) THEN "binary"
  ELSE IF ~isSourceFile(toLowerCase(extname(p)), p) THEN "notSource"
  ELSE IF ~fsTree[p].statOk THEN "statError"
  ELSE IF ExceedsMaxFileSize(fsTree[p].size, maxFileSize) THEN "tooLarge"
  ELSE IF filter.active /\ ignores(filter, p) THEN "gitignored"
  ELSE IF InDependencyDirectory(p) THEN "dependency"
  ELSE "included"

\* the filter callback of getFiles on one path of the glob result
Verdict(filter, fsTree, maxFileSize, p) ==
  IF filter.active /\ ignores(filter, p) THEN "gitignored"
  ELSE IF InDependencyDirectory(p) THEN "dependency"
  ELSE IF isBinaryFile(toLowerCase(extname(p))) THEN "binary"
  ELSE IF ~isSourceFile(toLowerCase(extname(p)), p) THEN "notSource"
  ELSE IF ~fsTree[p].statOk THEN "statError"
  ELSE IF ExceedsMaxFileSize(fsTree[p].size, maxFileSize) THEN "tooLarge"
  ELSE "included"

\* getFiles: the returned list, the entries pushed on skippedFiles and errors,
\* the gitignore filter kept on the instance, and the calls issued
getFiles(o, fsTree, gi) ==
  LET loaded == loadGitignore(o.respectGitignore, gi)
      globbed == GlobResult(fsTree, o.excludePatterns)
      verdict(p) == Verdict(loaded.filter, fsTree, o.maxFileSize, p)
      pick(v) == SelectSeq(globbed, LAMBDA p : verdict(p) = v)
      large == pick("tooLarge")
      failed == pick("statError")
      statted == {p \in Range(globbed) : verdict(p) \in {"tooLarge", "statError", "included"}}
  IN  [files   |-> SelectSeq(globbed, LAMBDA p : IsKept(verdict(p))),
       skipped |-> [k \in 1..Len(large) |->
                      [name |-> large[k], size |-> RoundKB(fsTree[large[k]].size)]],
       errs    |-> loaded.errs \o
                   [k \in 1..Len(failed) |->
                      [kind |-> "Cannot access file", file |-> failed[k]]],
       filter  |-> loaded.filter,
       calls   |-> loaded.calls \cup {"glob"} \cup
                   (IF statted = {} THEN {} ELSE {"statSync"})]

-----------------------------------------------------------------------------
(* Ordering and grouping of the included files *)

BasenamePriority(base) ==
  CASE base = "README.md" -> 1
    [] base = "package.json" -> 2
    [] base = "tsconfig.json" -> 3
    [] base \in {"index.js", "index.ts", "main.js", "main.ts", "app.js", "app.ts"} -> 4
    [] OTHER -> 100

ExtPriority(ext) ==
  CASE ext = ".json" -> 1 [] ext = ".js" -> 2 [] ext = ".ts" -> 3 [] ext = ".jsx" -> 4
    [] ext = ".tsx" -> 5 [] ext = ".css" -> 6 [] ext = ".scss" -> 7 [] ext = ".md" -> 8
    [] ext = ".txt" -> 9 [] OTHER -> 10

ComesBefore_NoExtRank(a, b) ==
  IF BasenamePriority(basename(a)) # BasenamePriority(basename(b))
  THEN BasenamePriority(basename(a)) < BasenamePriority(basename(b))
  ELSE LocaleRank(a) < LocaleRank(b)

\* the comparator of prioritizeFiles returns a negative number
ComesBefore(a, b) ==
  IF BasenamePriority(basename(a)) # BasenamePriority(basename(b))
  THEN BasenamePriority(basename(a)) < BasenamePriority(basename(b))
  ELSE IF ExtPriority(extname(a)) # ExtPriority(extname(b))
       THEN ExtPriority(extname(a)) < ExtPriority(extname(b))
       ELSE LocaleRank(a) < LocaleRank(b)

\* Array.prototype.sort with that comparator (stable)
RECURSIVE InsertSorted(_, _)
InsertSorted(sorted, x) ==
  IF sorted = <<>> THEN <<x>>
  ELSE IF ComesBefore(x, Head(sorted)) THEN <<x>> \o sorted
       ELSE <<Head(sorted)>> \o InsertSorted(Tail(sorted), x)
RECURSIVE SortFrom(_, _, _)
SortFrom(list, k, acc) ==
  IF k > Len(list) THEN acc ELSE SortFrom(list, k + 1, InsertSorted(acc, list[k]))

prioritizeFiles_DropFirst(list) == SortFrom(list, 2, <<>>)

\* prioritizeFiles sorts the array it is given in place and returns it
prioritizeFiles(list) == SortFrom(list, 1, <<>>)

isConfigFile(name) ==
  name \in {"package.json", "tsconfig.json", "webpack.config.js",
            "babel.config.js", ".eslintrc.js", "docker-compose.yml"}

DirIncludes(p, probe) == \E k \in 1..(Len(p) - 1) : SegmentIncludes(p[k], probe)
FileIncludes(p, probe) == \E k \in 1..Len(p) : SegmentIncludes(p[k], probe)

GroupNames ==
  <<"Configuration", "Entry Points", "Components", "API/Routes", "Models/Schema",
    "Utilities", "Tests", "Styles", "Other">>

GroupOf_EntryFirst(p) ==
  IF isConfigFile(basename(p)) THEN "Configuration"
  ELSE IF \/ SegmentIncludes(basename(p), "index.")
          \/ SegmentIncludes(basename(p), "main.")
          \/ SegmentIncludes(basename(p), "app.") THEN "Entry Points"
  ELSE IF DirIncludes(p, "test") \/ FileIncludes(p, ".test.") \/ FileIncludes(p, ".spec.")
       THEN "Tests"
  ELSE IF extname(p) \in {".css", ".scss", ".sass", ".less"} THEN "Styles"
  ELSE IF DirIncludes(p, "component") THEN "Components"
  ELSE IF DirIncludes(p, "api") \/ DirIncludes(p, "route") THEN "API/Routes"
  ELSE IF DirIncludes(p, "model") \/ DirIncludes(p, "schema") THEN "Models/Schema"
  ELSE IF DirIncludes(p, "util") \/ DirIncludes(p, "helper") THEN "Utilities"
  ELSE "Other"

\* the bucket groupFilesByPurpose pushes one file on
GroupOf(p) ==
  IF isConfigFile(basename(p)) THEN "Configuration"
  ELSE IF DirIncludes(p, "test") \/ FileIncludes(p, ".test.") \/ FileIncludes(p, ".spec.")
       THEN "Tests"
  ELSE IF extname(p) \in {".css", ".scss", ".sass", ".less"} THEN "Styles"
  ELSE IF \/ SegmentIncludes(basename(p), "index.")
          \/ SegmentIncludes(basename(p), "main.")
          \/ SegmentIncludes(basename(p), "app.") THEN "Entry Points"
  ELSE IF DirIncludes(p, "component") THEN "Components"
  ELSE IF DirIncludes(p, "api") \/ DirIncludes(p, "route") THEN "API/Routes"
  ELSE IF DirIncludes(p, "model") \/ DirIncludes(p, "schema") THEN "Models/Schema"
  ELSE IF DirIncludes(p, "util") \/ DirIncludes(p, "helper") THEN "Utilities"
  ELSE "Other"

groupFilesByPurpose(list) ==
  [g \in Range(GroupNames) |-> SelectSeq(list, LAMBDA p : GroupOf(p) = g)]

\* the files in the order generateSmartOutput visits them: group after group
RECURSIVE GroupedOrderFrom(_, _)
GroupedOrderFrom(groups, k) ==
  IF k > Len(GroupNames) THEN <<>>
  ELSE groups[GroupNames[k]] \o GroupedOrderFrom(groups, k + 1)
GroupedOrder(list) == GroupedOrderFrom(groupFilesByPurpose(list), 1)

\* f.includes(name + '/'): a directory segment of the path ends with `name` (of
\* the segments of the universe, only the segment `name` itself does)
DirEndsWith(p, name) == \E k \in 1..(Len(p) - 1) : p[k] = name

detectTechnologies(list) ==
  SelectSeq(<<"Node.js/JavaScript", "TypeScript", "Python", "Java", "Go", "Rust", "Docker",
              "YAML Configuration">>,
    LAMBDA tech :
      CASE tech = "Node.js/JavaScript" -> <<"package.json">> \in Range(list)
        [] tech = "TypeScript" -> \E f \in Range(list) : extname(f) = ".ts"
        [] tech = "Python"     -> \E f \in Range(list) : extname(f) = ".py"
        [] tech = "Java"       -> \E f \in Range(list) : extname(f) = ".java"
        [] tech = "Go"         -> \E f \in Range(list) : extname(f) = ".go"
        [] tech = "Rust"       -> \E f \in Range(list) : extname(f) = ".rs"
        [] tech = "Docker"     -> <<"Dockerfile">> \in Range(list)
        [] tech = "YAML Configuration" ->
             \E f \in Range(list) : extname(f) \in {".yml", ".yaml"})

analyzeProject_ReactFirst(list) ==
  [architecture |->
     IF \E f \in Range(list) :
          \E k \in 1..(Len(f) - 2) : f[k] = "src" /\ f[k + 1] = "components"
     THEN "React SPA"
     ELSE IF \E f \in Range(list) : DirEndsWith(f, "pages") \/ DirEndsWith(f, "app")
     THEN "Next.js/React App"
     ELSE IF \E f \in Range(list) : FileIncludes(f, "main.py") \/ FileIncludes(f, "app.py")
     THEN "Python Backend"
     ELSE IF \E f \in Range(list) : FileIncludes(f, "server.js") THEN "Node.js Server"
     ELSE "Unknown",
   technologies |-> detectTechnologies(list),
   patterns |->
     SelectSeq(<<"Custom Hooks", "API Routes", "Data Models", "Utility Functions">>,
       LAMBDA pattern :
         \E f \in Range(list) :
           DirEndsWith(f, CASE pattern = "Custom Hooks" -> "hooks"
                            [] pattern = "API Routes" -> "api"
                            [] pattern = "Data Models" -> "models"
                            [] pattern = "Utility Functions" -> "utils"))]

\* analyzeProject(files): the first architecture rule that some path satisfies,
\* the technologies and the patterns, each in the order of its if statements
analyzeProject(list) ==
  [architecture |->
     IF \E f \in Range(list) : DirEndsWith(f, "pages") \/ DirEndsWith(f, "app")
     THEN "Next.js/React App"
     ELSE IF \E f \in Range(list) :
               \E k \in 1..(Len(f) - 2) : f[k] = "src" /\ f[k + 1] = "components"
     THEN "React SPA"
     ELSE IF \E f \in Range(list) : FileIncludes(f, "main.py") \/ FileIncludes(f, "app.py")
     THEN "Python Backend"
     ELSE IF \E f \in Range(list) : FileIncludes(f, "server.js") THEN "Node.js Server"
     ELSE "Unknown",
   technologies |-> detectTechnologies(list),
   patterns |->
     SelectSeq(<<"Custom Hooks", "API Routes", "Data Models", "Utility Functions">>,
       LAMBDA pattern :
         \E f \in Range(list) :
           DirEndsWith(f, CASE pattern = "Custom Hooks" -> "hooks"
                            [] pattern = "API Routes" -> "api"
                            [] pattern = "Data Models" -> "models"
                            [] pattern = "Utility Functions" -> "utils"))]

-----------------------------------------------------------------------------
(* The nine strategies.  A document is modelled by what the properties read:   *)
(* its top-level keys, its file count, the content entries in order, and the   *)
(* skippedFiles and errors arrays serialized into it.                          *)

Readable(fsTree, p) == fsTree[p].readOk /\ fsTree[p].statOk

ReadError(p) == [kind |-> "Cannot read file", file |-> p]

\* the errors one pass over `order` pushes
ReadErrors(fsTree, order) ==
  LET bad == SelectSeq(order, LAMBDA p : ~Readable(fsTree, p))
  IN  [k \in 1..Len(bad) |-> ReadError(bad[k])]

Raw(text, p) == text
Compacted(text, p) == optimizeContent(text)
SizeOptimized(text, p) == optimizeContentForSize(text)
SmartOptimized(text, p) ==
  aggressiveSmartOptimize(text, IF extWithoutDot(p) = "" THEN "text" ELSE extWithoutDot(p))

StructuredContent_Always(o, text, p) == optimizeContent(text)

\* content: this.compact ? this.optimizeContent(content) : content
StructuredContent(o, text, p) == IF o.compact THEN optimizeContent(text) ELSE text

\* the transformation a strategy applies to the text it read
Transformed(kind, o, text, p) ==
  CASE kind = "raw"        -> Raw(text, p)
    [] kind = "compacted"  -> Compacted(text, p)
    [] kind = "size"       -> SizeOptimized(text, p)
    [] kind = "smart"      -> SmartOptimized(text, p)
    [] kind = "structured" -> StructuredContent(o, text, p)

\* one content block; generateDSLOutput fences it only `if (fileData.content)`
Entry(p, content, fenceEmpty) ==
  [path |-> p, content |-> content, fenced |-> (fenceEmpty \/ content # <<>>)]

\* one entry per readable file of `order`, its content transformed
Entries(fsTree, order, o, kind, fenceEmpty) ==
  LET good == SelectSeq(order, LAMBDA p : Readable(fsTree, p))
  IN  [k \in 1..Len(good) |->
         Entry(good[k], Transformed(kind, o, fsTree[good[k]].text, good[k]), fenceEmpty)]

StructuredKeys == {"metadata", "analysis", "files", "skippedFiles", "errors"}

getFileType(filename, content) ==
  IF basename(filename) = "__init__.py"
  THEN IF Trim(content) # <<>> THEN "python_package_init_with_code"
       ELSE "python_package_marker"
  ELSE CASE extname(filename) = ".py" -> "python_source"
         [] extname(filename) = ".js" ->
              IF FileIncludes(filename, ".config.") \/ FileIncludes(filename, ".test.")
              THEN "javascript_config" ELSE "javascript_source"
         [] extname(filename) = ".json" -> "json_config"
         [] extname(filename) = ".md" -> "documentation"
         [] extname(filename) = ".css" -> "stylesheet"
         [] OTHER -> "source_code"

processedFiles_NeverPackageInit(fsTree, order) ==
  LET good == SelectSeq(order, LAMBDA p : Readable(fsTree, p))
      isEmptyInit(p) == FALSE
  IN  [k \in 1..Len(good) |->
         [path |-> good[k],
          fileType |-> IF isEmptyInit(good[k]) THEN "python_package_marker"
                       ELSE getFileType(good[k], fsTree[good[k]].text),
          isEmpty |-> fsTree[good[k]].size = 0,
          isPackageInit |-> isEmptyInit(good[k])]]

\* the classification fields of the processedFiles entries, one per readable
\* file of `order`
processedFiles(fsTree, order) ==
  LET good == SelectSeq(order, LAMBDA p : Readable(fsTree, p))
      isEmptyInit(p) == basename(p) = "__init__.py" /\ fsTree[p].size = 0
  IN  [k \in 1..Len(good) |->
         [path |-> good[k],
          fileType |-> IF isEmptyInit(good[k]) THEN "python_package_marker"
                       ELSE getFileType(good[k], fsTree[good[k]].text),
          isEmpty |-> fsTree[good[k]].size = 0,
          isPackageInit |-> isEmptyInit(good[k])]]

(* What a strategy does, as the code of its generate method has it: the array  *)
(* it walks for the content blocks (order: the shared array as given, that     *)
(* array after prioritizeFiles, or the groups of groupFilesByPurpose), the     *)
(* transformation of each text (kind), the read loops whose catch block pushes *)
(* on this.errors (reads), whether it calls prioritizeFiles on the shared      *)
(* array (sorts), and whether skippedFiles and errors are serialized (lists).  *)

\* generateOutput (plain), generateCompactOutput, generateSmartOutput
generateOutput(o) ==
  IF o.smartCompress
  THEN [format |-> "markdown", keys |-> {}, order |-> "grouped", kind |-> "smart",
        reads |-> <<>>, sorts |-> FALSE, lists |-> FALSE, fenceEmpty |-> TRUE]
  ELSE [format |-> "markdown", keys |-> {}, order |-> "sorted",
        kind |-> IF o.compact THEN "compacted" ELSE "raw",
        reads |-> <<"sorted">>, sorts |-> TRUE, lists |-> FALSE, fenceEmpty |-> TRUE]

\* generateJSONOutput, generateYAMLOutput, generateJSONLDOutput (which adds the
\* '@context', '@type' and '@id' keys)
generateStructuredOutput(fmt) ==
  [format |-> fmt,
   keys |-> StructuredKeys \cup (IF fmt = "jsonld" THEN {"@context", "@type", "@id"} ELSE {}),
   order |-> "shared", kind |-> "structured",
   reads |-> <<"shared">>, sorts |-> FALSE, lists |-> TRUE, fenceEmpty |-> TRUE]

generateTOMLOutput_Raw ==
  [format |-> "toml", keys |-> {"metadata", "analysis", "aiContext", "files"},
   order |-> "shared", kind |-> "raw",
   reads |-> <<"shared">>, sorts |-> FALSE, lists |-> FALSE, fenceEmpty |-> TRUE]

generateTOMLOutput ==
  [format |-> "toml", keys |-> {"metadata", "analysis", "aiContext", "files"},
   order |-> "shared", kind |-> "structured",
   reads |-> <<"shared">>, sorts |-> FALSE, lists |-> FALSE, fenceEmpty |-> TRUE]

\* generateMessagePackOutput packs the parsed result of generateJSONOutput
generateMessagePackOutput ==
  [generateStructuredOutput("json") EXCEPT !.format = "msgpack"]

\* generateMarkdownYAMLOutput reads every file twice: once for the front matter
\* (in the order of the shared array), once for the body (in priority order)
generateMarkdownYAMLOutput ==
  [format |-> "mdyaml", keys |-> {"metadata", "analysis", "aiContext"},
   order |-> "sorted", kind |-> "raw",
   reads |-> <<"shared", "sorted">>, sorts |-> TRUE, lists |-> FALSE, fenceEmpty |-> TRUE]

\* generateDSLOutput: a FILE line per processed file, a fenced block only when
\* the processed content is a non-empty string
generateDSLOutput ==
  [format |-> "dsl", keys |-> {}, order |-> "sorted", kind |-> "structured",
   reads |-> <<"shared">>, sorts |-> TRUE, lists |-> FALSE, fenceEmpty |-> FALSE]

generateOptimizedMarkdownOutput ==
  [format |-> "mdopt", keys |-> {}, order |-> "sorted", kind |-> "size",
   reads |-> <<"sorted">>, sorts |-> TRUE, lists |-> FALSE, fenceEmpty |-> TRUE]

IsSupported(fmt) == fmt \in Range(OUTPUT_FORMATS)

\* OutputStrategyFactory.createStrategy(format, codePack)
createStrategy(fmt, o) ==
  CASE fmt = "markdown" -> generateOutput(o)
    [] fmt \in {"json", "yaml", "jsonld"} -> generateStructuredOutput(fmt)
    [] fmt = "toml"    -> generateTOMLOutput
    [] fmt = "msgpack" -> generateMessagePackOutput
    [] fmt = "mdyaml"  -> generateMarkdownYAMLOutput
    [] fmt = "dsl"     -> generateDSLOutput
    [] fmt = "mdopt"   -> generateOptimizedMarkdownOutput

\* JSON.parse of the text generateJSONOutput returns, as far as the model holds it
Payload(totalFiles, entries, skipped, errs) ==
  [totalFiles |-> totalFiles,
   files |-> [k \in 1..Len(entries) |->
                [path |-> entries[k].path, content |-> entries[k].content]],
   skippedFiles |-> skipped,
   errors |-> errs]

RECURSIVE Flatten(_)
Flatten(parts) == IF parts = <<>> THEN <<>> ELSE Head(parts) \o Flatten(Tail(parts))

\* msgpack.encode(jsonData): each value is written as its type tag, then its
\* length or its scalar, then its members in order (a map: key, value, ...)
msgpackEncode(data) ==
  LET str(x) == <<"str", x>>
      int(n) == <<"int", n>>
      array(parts) == <<"array", Len(parts)>> \o Flatten(parts)
      file(e) == <<"map", 2>> \o str("path") \o str(e.path)
                              \o str("content") \o str(e.content)
      skip(e) == <<"map", 2>> \o str("name") \o str(e.name) \o str("size") \o int(e.size)
  IN  <<"map", 4>>
        \o str("totalFiles") \o int(data.totalFiles)
        \o str("files") \o array([k \in 1..Len(data.files) |-> file(data.files[k])])
        \o str("skippedFiles")
        \o array([k \in 1..Len(data.skippedFiles) |-> skip(data.skippedFiles[k])])
        \o str("errors") \o array([k \in 1..Len(data.errors) |-> str(data.errors[k])])

\* msgpack.decode(buffer), as the header of the archive tells its reader to do:
\* the value that starts at `pos`, and the position after it
RECURSIVE Decode(_, _), DecodeItems(_, _, _), DecodePairs(_, _, _)
Decode(packed, pos) ==
  CASE packed[pos] \in {"str", "int"} -> [value |-> packed[pos + 1], next |-> pos + 2]
    [] packed[pos] = "array" -> DecodeItems(packed, pos + 2, packed[pos + 1])
    [] packed[pos] = "map" -> DecodePairs(packed, pos + 2, packed[pos + 1])
DecodeItems(packed, pos, n) ==
  IF n = 0 THEN [value |-> <<>>, next |-> pos]
  ELSE LET item == Decode(packed, pos)
           rest == DecodeItems(packed, item.next, n - 1)
       IN  [value |-> <<item.value>> \o rest.value, next |-> rest.next]
DecodePairs(packed, pos, n) ==
  IF n = 0 THEN [value |-> <<>>, next |-> pos]
  ELSE LET key == Decode(packed, pos)
           val == Decode(packed, key.next)
           rest == DecodePairs(packed, val.next, n - 1)
       IN  [value |-> (key.value :> val.value) @@ rest.value, next |-> rest.next]
msgpackDecode(packed) == Decode(packed, 1).value

\* strategy.generate(files): the document, and this.errors and the shared array
\* after the call
generate(strategy, o, fsTree, list, sorted, grouped, skipped, errs) ==
  LET walked(name) == CASE name = "shared"  -> list
                        [] name = "sorted"  -> sorted
                        [] name = "grouped" -> grouped
      pushed == CASE Len(strategy.reads) = 0 -> <<>>
                  [] Len(strategy.reads) = 1 -> ReadErrors(fsTree, walked(strategy.reads[1]))
                  [] Len(strategy.reads) = 2 ->
                       ReadErrors(fsTree, walked(strategy.reads[1])) \o
                       ReadErrors(fsTree, walked(strategy.reads[2]))
      \* every strategy but the two plain markdown ones classifies its entries
      typed == IF strategy.format \in {"markdown", "mdopt"} THEN <<>>
               ELSE processedFiles(fsTree, walked(strategy.reads[1]))
      emptyInitFiles == SelectSeq(typed, LAMBDA file : file.isPackageInit)
  IN  [doc |-> [format |-> strategy.format, keys |-> strategy.keys,
                fileTypes |-> typed,
                emptyInitFiles |-> [k \in 1..Len(emptyInitFiles) |-> emptyInitFiles[k].path],
                emptyPackageMarkers |-> Len(emptyInitFiles),
                totalFiles |-> Len(list),
                entries |-> Entries(fsTree, walked(strategy.order), o, strategy.kind,
                                    strategy.fenceEmpty),
                skippedFiles |-> IF strategy.lists THEN skipped ELSE <<>>,
                errors |-> IF strategy.lists THEN errs \o pushed ELSE <<>>,
                packed |-> IF strategy.format = "msgpack"
                           THEN msgpackEncode(
                                  Payload(Len(list),
                                          Entries(fsTree, walked(strategy.order), o,
                                                  strategy.kind, strategy.fenceEmpty),
                                          skipped, errs \o pushed))
                           ELSE <<>>],
       errors |-> errs \o pushed,
       files |-> IF strategy.sorts THEN sorted ELSE list]

generateOutputByFormat(fmt, o, fsTree, list, skipped, errs) ==
  generate(createStrategy(fmt, o), o, fsTree, list, prioritizeFiles(list),
           GroupedOrder(list), skipped, errs)

\* Buffer.byteLength(output, 'utf8'), counted in the units of the model: one for
\* the heading of the document, one for the heading of each entry, and the
\* characters of each embedded content
RECURSIVE EntriesBytes(_, _)
EntriesBytes(entries, k) ==
  IF k > Len(entries) THEN 0
  ELSE 1 + (IF entries[k].fenced THEN Len(entries[k].content) ELSE 0)
         + EntriesBytes(entries, k + 1)
byteLength(doc) == 1 + EntriesBytes(doc.entries, 1)

-----------------------------------------------------------------------------
(* Initial states: a configuration and a file tree *)

File(size, statOk, readOk, text) ==
  [present |-> TRUE, size |-> size, statOk |-> statOk, readOk |-> readOk, text |-> text]
Absent == [present |-> FALSE, size |-> 0, statOk |-> FALSE, readOk |-> FALSE, text |-> <<>>]

\* the file system that holds the present files of a choice
TreeOf(choice) ==
  [p \in {q \in Universe : choice[q].present} |->
     [size |-> choice[p].size, statOk |-> choice[p].statOk,
      readOk |-> choice[p].readOk, text |-> choice[p].text]]

\* this.maxFileSize = (parseInt(sizeKB, 10) || MAX_FILE_SIZE_KB) * BYTES_PER_KB
withMaxFileSize(sizeKB) == (IF sizeKB = 0 THEN MAX_FILE_SIZE_KB ELSE sizeKB) * BYTES_PER_KB

\* the texts a source file of the model may hold
Texts ==
  { <<>>,
    <<"a", SP, "=", SP, "b">>,
    <<"a", NL, NL, NL, "b">> }

\* totalSizeLimit, in the units of byteLength: a limit the documents of the model
\* can exceed, and the default (50 units for 50 MB)
TotalSizeLimits == {4, 50}

OutputPath == <<"codepack-output", "md">>

RunTrees ==
  LET Tree(r, x, b, n) ==
        TreeOf([p \in Universe |->
          CASE p = README  -> r
            [] p = IndexJs -> x
            [] p = BigJs   -> b
            [] p = <<"pkg", "__init__.py">> -> n
            [] p \in {LogoPng, DepJs} -> File(600 * BYTES_PER_KB, TRUE, TRUE, <<"a">>)
            [] OTHER -> Absent])
      Readmes == {File(1, TRUE, ok, <<"a">>) : ok \in BOOLEAN}
  IN  { Tree(r, x, b, Absent) :
          r \in Readmes,
          x \in {File(Len(t), TRUE, TRUE, t) : t \in Texts},
          b \in {File(withMaxFileSize(0), TRUE, TRUE, <<"a">>),
                 File(600 * BYTES_PER_KB, TRUE, TRUE, <<"a">>),
                 File(600 * BYTES_PER_KB, FALSE, TRUE, <<"a">>)} }
      \cup
      \* a Python package: an __init__.py of no bytes, of blank text, or with code
      { Tree(r, File(0, TRUE, TRUE, <<>>), File(withMaxFileSize(0), TRUE, TRUE, <<"a">>), n) :
          r \in Readmes,
          n \in {File(Len(t), TRUE, TRUE, t) : t \in {<<>>, <<NL>>, <<"a">>}} }

Fresh ==
  /\ pc = "start"
  /\ files = <<>>
  /\ skippedFiles = <<>>
  /\ errors = <<>>
  /\ gitignoreFilter = NoFilter
  /\ io = {}
  /\ docs = <<>>
  /\ outputSize = 0
  /\ i = 0
  /\ results = <<>>
  /\ written = <<>>
  /\ exitCode = 0
  /\ errorMessage = "none"
  /\ format0 = "none"
  /\ thrown = {}

Init ==
  /\ opts \in [allFormats : BOOLEAN, dryRun : BOOLEAN, compact : BOOLEAN,
               smartCompress : BOOLEAN, totalSizeLimit : TotalSizeLimits,
               maxFileSize : {withMaxFileSize(0)}, excludePatterns : {EXCLUDE_PATTERNS},
               respectGitignore : {TRUE}, outputPath : {OutputPath}]
  /\ format \in IF opts.allFormats THEN {"markdown", "xml"}
                ELSE Range(OUTPUT_FORMATS) \cup {"xml"}
  /\ tree \in RunTrees
  /\ gitignoreFile = NoGitignore
  /\ Fresh

-----------------------------------------------------------------------------
(* compress(): discovery *)

\* this.skippedFiles = []; const files = await this.getFiles()
Discover ==
  /\ pc = "start"
  /\ LET found == getFiles(opts, tree, gitignoreFile)
     IN  /\ files' = found.files
         /\ skippedFiles' = found.skipped
         /\ errors' = errors \o found.errs
         /\ gitignoreFilter' = found.filter
         /\ io' = io \cup found.calls
  /\ pc' = "discovered"
  /\ UNCHANGED <<opts, format, tree, gitignoreFile, docs, outputSize, i, results,
                 written, exitCode, errorMessage, format0, thrown>>

-----------------------------------------------------------------------------
(* compress(): the single-format path *)

ReadCalls(list) == IF list = <<>> THEN {} ELSE {"readFile"}

ReportCalls_Silent(errs) == {}

\* if (this.errors.length > 0) console.log('Errors encountered:') and the entries
ReportCalls(errs) == IF errs = <<>> THEN {} ELSE {"logErrors"}

\* process.exit(1) in the catch block of compress()
Fail(message) ==
  /\ pc' = "exited"
  /\ exitCode' = 1
  /\ errorMessage' = message

\* compressionCommand.execute() returns the document; outputSize is computed
PerformCompression ==
  /\ pc = "discovered"
  /\ ~opts.allFormats
  /\ IsSupported(format)
  /\ \E g \in {generateOutputByFormat(format, opts, tree, files, skippedFiles, errors)} :
         /\ docs' = (format :> g.doc)
         /\ errors' = g.errors
         /\ files' = g.files
         /\ outputSize' = byteLength(g.doc)
  /\ io' = io \cup ReadCalls(files)
  /\ pc' = "generated"
  /\ UNCHANGED <<opts, format, tree, gitignoreFile, skippedFiles, gitignoreFilter, i,
                 results, written, exitCode, errorMessage, format0, thrown>>

UnsupportedFormat_BeforeDiscovery ==
  /\ pc = "start"
  /\ ~opts.allFormats
  /\ ~IsSupported(format)
  /\ Fail("Unsupported output format")
  /\ UNCHANGED <<opts, format, tree, gitignoreFile, files, skippedFiles, errors,
                 gitignoreFilter, io, docs, outputSize, i, results, written, format0, thrown>>

\* createStrategy throws for a format that has no strategy class
UnsupportedFormat ==
  /\ pc = "discovered"
  /\ ~opts.allFormats
  /\ ~IsSupported(format)
  /\ Fail("Unsupported output format")
  /\ UNCHANGED <<opts, format, tree, gitignoreFile, files, skippedFiles, errors,
                 gitignoreFilter, io, docs, outputSize, i, results, written, format0, thrown>>

\* the strategy throws while it serializes the document (after its read loops)
GenerationThrows ==
  /\ pc = "discovered"
  /\ ~opts.allFormats
  /\ IsSupported(format)
  /\ \E g \in {generateOutputByFormat(format, opts, tree, files, skippedFiles, errors)} :
         /\ errors' = g.errors
         /\ files' = g.files
  /\ io' = io \cup ReadCalls(files)
  /\ thrown' = thrown \cup {format}
  /\ Fail("generation failed")
  /\ UNCHANGED <<opts, format, tree, gitignoreFile, skippedFiles, gitignoreFilter, docs,
                 outputSize, i, results, written, format0>>

TooLarge_Never(size, limit) == FALSE

\* outputSize > this.totalSizeLimit
TooLarge(size, limit) == size > limit

OutputTooLarge ==
  /\ pc = "generated"
  /\ TooLarge(outputSize, opts.totalSizeLimit)
  /\ Fail("Output too large")
  /\ UNCHANGED <<opts, format, tree, gitignoreFile, files, skippedFiles, errors,
                 gitignoreFilter, io, docs, outputSize, i, results, written, format0, thrown>>

\* if (this.dryRun) { ...; return; }
DryRunReport ==
  /\ pc = "generated"
  /\ ~TooLarge(outputSize, opts.totalSizeLimit)
  /\ opts.dryRun
  /\ pc' = "done"
  /\ UNCHANGED <<opts, format, tree, gitignoreFile, files, skippedFiles, errors,
                 gitignoreFilter, io, docs, outputSize, i, results, written,
                 exitCode, errorMessage, format0, thrown>>

WriteOutput_IgnoreDryRun ==
  /\ pc = "generated"
  /\ ~TooLarge(outputSize, opts.totalSizeLimit)
  /\ io' = io \cup {"ensureDir", "writeFile"} \cup ReportCalls(errors)
  /\ written' = Append(written, [path |-> opts.outputPath, size |-> outputSize,
                                 format |-> format])
  /\ pc' = "done"
  /\ UNCHANGED <<opts, format, tree, gitignoreFile, files, skippedFiles, errors,
                 gitignoreFilter, docs, outputSize, i, results,
                 exitCode, errorMessage, format0, thrown>>

\* await fs.ensureDir(...); await fs.writeFile(this.outputPath, output); the
\* skipped files and the collected errors are printed
WriteOutput ==
  /\ pc = "generated"
  /\ ~TooLarge(outputSize, opts.totalSizeLimit)
  /\ ~opts.dryRun
  /\ io' = io \cup {"ensureDir", "writeFile"} \cup ReportCalls(errors)
  /\ written' = Append(written, [path |-> opts.outputPath, size |-> outputSize,
                                 format |-> format])
  /\ pc' = "done"
  /\ UNCHANGED <<opts, format, tree, gitignoreFile, files, skippedFiles, errors,
                 gitignoreFilter, docs, outputSize, i, results,
                 exitCode, errorMessage, format0, thrown>>

\* ensureDir or writeFile rejects: nothing is recorded as written
WriteThrows ==
  /\ pc = "generated"
  /\ ~TooLarge(outputSize, opts.totalSizeLimit)
  /\ ~opts.dryRun
  /\ io' = io \cup {"ensureDir"}
  /\ thrown' = thrown \cup {format}
  /\ Fail("write failed")
  /\ UNCHANGED <<opts, format, tree, gitignoreFile, files, skippedFiles, errors,
                 gitignoreFilter, docs, outputSize, i, results, written, format0>>

-----------------------------------------------------------------------------
(* generateAllFormats(files) *)

FormatExt_AlwaysMd(name) == <<"md">>

\* the ext of each entry of the formats array, split at its dots
FormatExt(name) ==
  CASE name = "markdown" -> <<"md">>
    [] name = "json"     -> <<"json">>
    [] name = "yaml"     -> <<"yaml">>
    [] name = "toml"     -> <<"toml">>
    [] name = "msgpack"  -> <<"msgpack", "txt">>
    [] name = "mdyaml"   -> <<"frontmatter", "md">>
    [] name = "dsl"      -> <<"dsl", "txt">>
    [] name = "jsonld"   -> <<"jsonld", "json">>
    [] name = "mdopt"    -> <<"optimized", "md">>

\* this.outputPath.replace(/\.[^/.]+$/, ''): the path without its last extension
baseOutputPath(outputPath) ==
  IF Len(outputPath) > 1 THEN SubSeq(outputPath, 1, Len(outputPath) - 1) ELSE outputPath

FormatOutputPath(name) == baseOutputPath(opts.outputPath) \o FormatExt(name)

Result(name, size, status, error) ==
  [format |-> name, path |-> FormatOutputPath(name), size |-> size,
   status |-> status, error |-> error]

AfterFailure_Abort(k) == Len(OUTPUT_FORMATS) + 1

\* the catch block ends the iteration; the for loop goes on with i + 1
AfterFailure(k) == k + 1

EnterAllFormats ==
  /\ pc = "discovered"
  /\ opts.allFormats
  /\ pc' = "loop"
  /\ i' = 1
  /\ results' = <<>>
  /\ format0' = format
  /\ UNCHANGED <<opts, format, tree, gitignoreFile, files, skippedFiles, errors,
                 gitignoreFilter, io, docs, outputSize, written, exitCode, errorMessage,
                 thrown>>

\* the current iteration: its format, and what its strategy returns
InLoop == pc = "loop" /\ i <= Len(OUTPUT_FORMATS)
CurrentName == OUTPUT_FORMATS[i]
CurrentRun == generateOutputByFormat(CurrentName, opts, tree, files, skippedFiles, errors)

\* the part of an iteration that every outcome shares: the strategy has run
Generated(g) ==
  /\ errors' = g.errors
  /\ files' = g.files
  /\ io' = io \cup ReadCalls(files) \cup
           (IF g.written THEN {"ensureDir", "writeFile"} ELSE {}) \cup
           (IF g.writeFailed THEN {"ensureDir"} ELSE {})
  /\ pc' = "loop"
  /\ UNCHANGED <<opts, tree, gitignoreFile, skippedFiles, gitignoreFilter, outputSize,
                 exitCode, errorMessage, format0>>

Outcome(g, isWritten, isWriteFailed) ==
  [doc |-> g.doc, errors |-> g.errors, files |-> g.files,
   written |-> isWritten, writeFailed |-> isWriteFailed]

\* generation throws: the assignment that restores this.format is skipped
FormatGenerationFails ==
  /\ InLoop
  /\ Cardinality(thrown) < MaxFaults
  /\ \E g \in {CurrentRun} : Generated(Outcome(g, FALSE, FALSE))
  /\ format' = CurrentName
  /\ thrown' = thrown \cup {CurrentName}
  /\ results' = Append(results, Result(CurrentName, 0, "failed", "generation failed"))
  /\ i' = AfterFailure(i)
  /\ UNCHANGED <<docs, written>>

\* if (this.dryRun) { results.push({..., status: 'dry-run'}) }
FormatDryRun ==
  /\ InLoop
  /\ opts.dryRun
  /\ \E g \in {CurrentRun} :
         /\ Generated(Outcome(g, FALSE, FALSE))
         /\ docs' = (CurrentName :> g.doc) @@ docs
         /\ results' = Append(results,
                         Result(CurrentName, byteLength(g.doc), "dry-run", "none"))
  /\ format' = format
  /\ i' = i + 1
  /\ UNCHANGED <<written, thrown>>

\* else { ensureDir; writeFile; results.push({..., status: 'completed'}) }
FormatWritten ==
  /\ InLoop
  /\ ~opts.dryRun
  /\ \E g \in {CurrentRun} :
         /\ Generated(Outcome(g, TRUE, FALSE))
         /\ docs' = (CurrentName :> g.doc) @@ docs
         /\ written' = Append(written, [path |-> FormatOutputPath(CurrentName),
                                        size |-> byteLength(g.doc), format |-> CurrentName])
         /\ results' = Append(results,
                         Result(CurrentName, byteLength(g.doc), "completed", "none"))
  /\ format' = format
  /\ i' = i + 1
  /\ UNCHANGED thrown

\* ensureDir or writeFile rejects after this.format was restored
FormatWriteFails ==
  /\ InLoop
  /\ ~opts.dryRun
  /\ Cardinality(thrown) < MaxFaults
  /\ \E g \in {CurrentRun} :
         /\ Generated(Outcome(g, FALSE, TRUE))
         /\ docs' = (CurrentName :> g.doc) @@ docs
  /\ format' = format
  /\ thrown' = thrown \cup {CurrentName}
  /\ results' = Append(results, Result(CurrentName, 0, "failed", "write failed"))
  /\ i' = AfterFailure(i)
  /\ UNCHANGED written

\* the summary is printed and generateAllFormats returns
FinishAllFormats ==
  /\ pc = "loop"
  /\ i > Len(OUTPUT_FORMATS)
  /\ io' = io \cup ReportCalls(errors)
  /\ pc' = "done"
  /\ UNCHANGED <<opts, format, tree, gitignoreFile, files, skippedFiles, errors,
                 gitignoreFilter, docs, outputSize, i, results, written,
                 exitCode, errorMessage, format0, thrown>>

-----------------------------------------------------------------------------
(* Specifications *)

Next ==
  \/ Discover
  \/ PerformCompression
  \/ UnsupportedFormat
  \/ GenerationThrows
  \/ OutputTooLarge
  \/ DryRunReport
  \/ WriteOutput
  \/ WriteThrows
  \/ EnterAllFormats
  \/ FormatGenerationFails
  \/ FormatDryRun
  \/ FormatWritten
  \/ FormatWriteFails
  \/ FinishAllFormats

Spec == Init /\ [][Next]_vars

(* Discovery alone, over more trees, ceilings, exclude lists and ignore-files *)

FileSizes ==
  {BYTES_PER_KB, BYTES_PER_KB + 1, BYTES_PER_KB + 512,
   withMaxFileSize(0), withMaxFileSize(0) + 1, withMaxFileSize(0) + 512,
   600 * BYTES_PER_KB}

DiscoveryTrees ==
  { TreeOf([p \in Universe |->
       CASE p = README  -> File(1, TRUE, TRUE, <<"a">>)
         [] p = IndexJs -> x
         [] p = BigJs   -> b
         [] p = NotesBak -> n
         [] p = TmpJs   -> t
         [] p = DeepJs  -> d
         [] p = DepJs   -> m.top
         [] p = <<"lib", "node_modules", "dep.js">> -> m.nested
         [] p = LogoPng -> File(600 * BYTES_PER_KB, TRUE, TRUE, <<"a">>)
         [] OTHER -> Absent]) :
      x \in {File(sz, TRUE, TRUE, <<"a">>) : sz \in {BYTES_PER_KB, withMaxFileSize(0)}},
      b \in {File(sz, TRUE, TRUE, <<"a">>) : sz \in FileSizes} \cup
            {File(600 * BYTES_PER_KB, FALSE, TRUE, <<"a">>)},
      n \in {Absent, File(600 * BYTES_PER_KB, TRUE, TRUE, <<"a">>)},
      t \in {Absent, File(1, TRUE, TRUE, <<"a">>),
             File(600 * BYTES_PER_KB, TRUE, TRUE, <<"a">>)},
      d \in {Absent, File(1, TRUE, TRUE, <<"a">>)},
      m \in {[top |-> File(600 * BYTES_PER_KB, TRUE, TRUE, <<"a">>), nested |-> Absent],
             [top |-> File(1, TRUE, TRUE, <<"a">>),
              nested |-> File(600 * BYTES_PER_KB, TRUE, TRUE, <<"a">>)]} }

InitGetFiles ==
  /\ opts \in [allFormats : {FALSE}, dryRun : {FALSE}, compact : {FALSE},
               smartCompress : {FALSE}, totalSizeLimit : {50},
               maxFileSize : {withMaxFileSize(kb) : kb \in {0, 1}},
               excludePatterns : {EXCLUDE_PATTERNS, <<"dist">>, <<"src">>, <<"tmp">>,
                                  <<"index.js">>},
               respectGitignore : BOOLEAN, outputPath : {OutputPath}]
  /\ format = "markdown"
  /\ tree \in DiscoveryTrees
  /\ gitignoreFile \in {NoGitignore,
                        [exists |-> TRUE, readable |-> FALSE, rules |-> {}],
                        [exists |-> TRUE, readable |-> TRUE, rules |-> {"tmp"}]}
  /\ Fresh

NextGetFiles == Discover

SpecGetFiles == InitGetFiles /\ [][NextGetFiles]_vars

(* optimizeContent alone, applied once and then to its own result, over the    *)
(* texts made of a few pieces: a letter, a newline, a space, a line comment    *)
(* opener and an empty block comment                                           *)

MaxPieces == 6

Pieces == {<<"a">>, <<NL>>, <<SP>>, <<"/", "/">>, <<"/", "*", "*", "/">>}

RECURSIVE PieceTexts(_)
PieceTexts(n) ==
  IF n = 0 THEN {<<>>}
  ELSE PieceTexts(n - 1) \cup {t \o p : t \in PieceTexts(n - 1), p \in Pieces}

InitOptimizeContent ==
  /\ opts = [allFormats |-> FALSE, dryRun |-> FALSE, compact |-> TRUE,
             smartCompress |-> FALSE, totalSizeLimit |-> 50,
             maxFileSize |-> withMaxFileSize(0), excludePatterns |-> EXCLUDE_PATTERNS,
             respectGitignore |-> TRUE, outputPath |-> OutputPath]
  /\ format = "markdown"
  /\ tree \in {(IndexJs :> [size |-> Len(t), statOk |-> TRUE, readOk |-> TRUE, text |-> t]) :
                t \in PieceTexts(MaxPieces)}
  /\ gitignoreFile = NoGitignore
  /\ Fresh

\* content = this.optimizeContent(content)
OptimizeOnce ==
  /\ pc = "start"
  /\ docs' = ("once" :> optimizeContent(tree[IndexJs].text))
  /\ pc' = "optimized"
  /\ UNCHANGED <<opts, format, tree, gitignoreFile, files, skippedFiles, errors,
                 gitignoreFilter, io, outputSize, i, results, written, exitCode,
                 errorMessage, format0, thrown>>

\* the same call on the text the first call returned
OptimizeAgain ==
  /\ pc = "optimized"
  /\ docs' = ("twice" :> optimizeContent(docs["once"])) @@ docs
  /\ pc' = "done"
  /\ UNCHANGED <<opts, format, tree, gitignoreFile, files, skippedFiles, errors,
                 gitignoreFilter, io, outputSize, i, results, written, exitCode,
                 errorMessage, format0, thrown>>

NextOptimizeContent == OptimizeOnce \/ OptimizeAgain

SpecOptimizeContent == InitOptimizeContent /\ [][NextOptimizeContent]_vars

(* prioritizeFiles and groupFilesByPurpose alone, over the lists of distinct    *)
(* source paths of the universe                                                *)

MaxListLen == 3

ListPaths ==
  Universe \ {LogoPng, NotesBak, DepJs, DeepJs, TmpJs, <<"lib", "node_modules", "dep.js">>}

DistinctLists(n) ==
  {list \in UNION {[1..k -> ListPaths] : k \in 0..n} :
     \A a, b \in 1..Len(list) : list[a] = list[b] => a = b}

InitOrdering ==
  /\ opts = [allFormats |-> FALSE, dryRun |-> FALSE, compact |-> FALSE,
             smartCompress |-> TRUE, totalSizeLimit |-> 50,
             maxFileSize |-> withMaxFileSize(0), excludePatterns |-> EXCLUDE_PATTERNS,
             respectGitignore |-> TRUE, outputPath |-> OutputPath]
  /\ format = "markdown"
  /\ tree = <<>>
  /\ gitignoreFile = NoGitignore
  /\ pc = "start"
  /\ files \in DistinctLists(MaxListLen)
  /\ skippedFiles = <<>>
  /\ errors = <<>>
  /\ gitignoreFilter = NoFilter
  /\ io = {}
  /\ docs = <<>>
  /\ outputSize = 0
  /\ i = 0
  /\ results = <<>>
  /\ written = <<>>
  /\ exitCode = 0
  /\ errorMessage = "none"
  /\ format0 = "none"
  /\ thrown = {}

\* const sortedFiles = this.prioritizeFiles(files): the array is sorted in place;
\* results keeps the array as it was handed over
CallPrioritizeFiles ==
  /\ pc = "start"
  /\ results' = files
  /\ files' = prioritizeFiles(files)
  /\ pc' = "sorted"
  /\ UNCHANGED <<opts, format, tree, gitignoreFile, skippedFiles, errors, gitignoreFilter,
                 io, docs, outputSize, i, written, exitCode, errorMessage, format0, thrown>>

\* const fileGroups = this.groupFilesByPurpose(files)
CallGroupFilesByPurpose ==
  /\ pc \in {"start", "sorted"}
  /\ docs' = groupFilesByPurpose(files)
  /\ pc' = "grouped"
  /\ UNCHANGED <<opts, format, tree, gitignoreFile, files, skippedFiles, errors,
                 gitignoreFilter, io, outputSize, i, results, written, exitCode,
                 errorMessage, format0, thrown>>

\* const analysis = await this.analyzeProject(files)
CallAnalyzeProject ==
  /\ pc \in {"start", "sorted"}
  /\ docs' = ("analysis" :> analyzeProject(files))
  /\ pc' = "analyzed"
  /\ UNCHANGED <<opts, format, tree, gitignoreFile, files, skippedFiles, errors,
                 gitignoreFilter, io, outputSize, i, results, written, exitCode,
                 errorMessage, format0, thrown>>

NextOrdering == CallPrioritizeFiles \/ CallGroupFilesByPurpose \/ CallAnalyzeProject

SpecOrdering == InitOrdering /\ [][NextOrdering]_vars

(* The constructor's validateInputPath alone.  An absolute path is the sequence *)
(* of its segments; opts.input is the path handed over, and tree says where    *)
(* that path leads once its symbolic links are resolved and what is found      *)
(* there.                                                                      *)

RESTRICTED_SYSTEM_PATHS == {<<"etc">>, <<"sys">>, <<"proc">>}

\* os.homedir()
homedir == <<"home", "user">>

InputPaths ==
  { <<"etc">>, <<"etc", "nginx">>, <<"etcetera">>, <<"sys">>, <<"proc">>, <<"processing">>,
    <<"home", "user", ".ssh">>, <<"home", "user", ".ssh-backup">>,
    <<"home", "user", "project">>, <<"home", "user", "project", "file.txt">>,
    <<"srv", "app">> }

\* realPath.startsWith(restricted) on the two strings: the leading segments are
\* those of `restricted`, and the text of the next one begins with its last
startsWith(realPath, restricted) ==
  /\ Len(realPath) >= Len(restricted)
  /\ \A k \in 1..(Len(restricted) - 1) : realPath[k] = restricted[k]
  /\ \E seg \in {realPath[Len(restricted)]} : \E prefix \in {restricted[Len(restricted)]} :
       \/ seg = prefix
       \/ seg = "etcetera" /\ prefix = "etc"
       \/ seg = "processing" /\ prefix = "proc"
       \/ seg = ".ssh-backup" /\ prefix = ".ssh"

\* validateInputPath(inputPath): realpathSync throws ENOENT when nothing is at
\* the path, before the existsSync test is reached
validateInputPath(inputPath, fs) ==
  IF fs.kind = "missing"
  THEN [ok |-> FALSE, message |-> "ENOENT: no such file or directory", path |-> <<>>]
  ELSE IF fs.kind # "directory"
  THEN [ok |-> FALSE, message |-> "Input path is not a directory", path |-> <<>>]
  ELSE IF \E restricted \in RESTRICTED_SYSTEM_PATHS \cup {homedir \o <<".ssh">>} :
            startsWith(fs.realPath, restricted)
  THEN [ok |-> FALSE, message |-> "Access to system directory is restricted", path |-> <<>>]
  ELSE [ok |-> TRUE, message |-> "none", path |-> fs.realPath]

InitValidateInputPath ==
  /\ opts \in [input : InputPaths, allFormats : {FALSE}, dryRun : {FALSE}, compact : {FALSE},
               smartCompress : {FALSE}, totalSizeLimit : {50},
               maxFileSize : {withMaxFileSize(0)}, excludePatterns : {EXCLUDE_PATTERNS},
               respectGitignore : {TRUE}, outputPath : {OutputPath}]
  /\ format = "markdown"
  /\ tree \in [realPath : InputPaths, kind : {"missing", "file", "directory"}]
  /\ gitignoreFile = NoGitignore
  /\ pc = "constructing"
  /\ files = <<>>
  /\ skippedFiles = <<>>
  /\ errors = <<>>
  /\ gitignoreFilter = NoFilter
  /\ io = {}
  /\ docs = <<>>
  /\ outputSize = 0
  /\ i = 0
  /\ results = <<>>
  /\ written = <<>>
  /\ exitCode = 0
  /\ errorMessage = "none"
  /\ format0 = "none"
  /\ thrown = {}

\* this.inputPath = this.validateInputPath(this.inputPath)
ConstructorRejects ==
  /\ pc = "constructing"
  /\ \E v \in {validateInputPath(opts.input, tree)} :
       /\ ~v.ok
       /\ Fail(v.message)
  /\ UNCHANGED <<opts, format, tree, gitignoreFile, files, skippedFiles, errors,
                 gitignoreFilter, io, docs, outputSize, i, results, written, format0, thrown>>

ConstructorAccepts ==
  /\ pc = "constructing"
  /\ \E v \in {validateInputPath(opts.input, tree)} :
       /\ v.ok
       /\ docs' = ("inputPath" :> v.path)
  /\ pc' = "start"
  /\ UNCHANGED <<opts, format, tree, gitignoreFile, files, skippedFiles, errors,
                 gitignoreFilter, io, outputSize, i, results, written, exitCode,
                 errorMessage, format0, thrown>>

SpecValidateInputPath ==
  InitValidateInputPath /\ [][ConstructorRejects \/ ConstructorAccepts]_vars

-----------------------------------------------------------------------------
(* Properties *)

IncludedPaths == Range(files)
SkippedPaths == {skippedFiles[k].name : k \in 1..Len(skippedFiles)}
ErroredPaths == {errors[k].file : k \in 1..Len(errors)}
AccessErrorPaths ==
  {errors[k].file : k \in {n \in 1..Len(errors) : errors[n].kind = "Cannot access file"}}
ReadErrorPaths ==
  {errors[k].file : k \in {n \in 1..Len(errors) : errors[n].kind = "Cannot read file"}}

\* the fenced entries of the documents generated so far, with their format
EmbeddedContents ==
  UNION { { [format |-> f, path |-> docs[f].entries[k].path,
             content |-> docs[f].entries[k].content] :
            k \in {n \in 1..Len(docs[f].entries) : docs[f].entries[n].fenced} } :
          f \in DOMAIN docs }

DiscoveryCalls == {"existsSync", "readGitignore", "glob", "statSync"}
WriteCalls == {"ensureDir", "writeFile"}

\* C1: in a single-format run the output path is written at most once, only
\* after the byte length of the generated document was computed and found to be
\* at most totalSizeLimit; a document longer than totalSizeLimit ends the run in
\* the fatal state (exit code 1, 'Output too large') without any write, dry-run
\* or not.
C1_SingleFormatSizeGate ==
  ~opts.allFormats =>
    /\ written # <<>> =>
         /\ Len(written) = 1
         /\ pc = "done"
         /\ format \in DOMAIN docs
         /\ written[1].path = opts.outputPath
         /\ written[1].size = byteLength(docs[format])
         /\ written[1].size <= opts.totalSizeLimit
    /\ \A f \in DOMAIN docs :
         byteLength(docs[f]) > opts.totalSizeLimit =>
           /\ written = <<>>
           /\ io \cap WriteCalls = {}
           /\ pc \in {"generated", "exited"}
           /\ pc = "exited" => (exitCode = 1 /\ errorMessage = "Output too large")

C1_Witness ==
  /\ ~opts.allFormats
  /\ opts.dryRun
  /\ pc = "exited"
  /\ errorMessage = "Output too large"
  /\ \E f \in DOMAIN docs : byteLength(docs[f]) > opts.totalSizeLimit

\* C2: in an all-formats run the byte length of each document is compared with
\* totalSizeLimit before the write, so no document longer than totalSizeLimit is
\* ever written.
C2_AllFormatsSizeGate ==
  opts.allFormats =>
    \A k \in 1..Len(written) : written[k].size <= opts.totalSizeLimit

C4_BucketsDisjoint ==
  /\ IncludedPaths \cap SkippedPaths = {}
  /\ IncludedPaths \cap ErroredPaths = {}
  /\ SkippedPaths \cap ErroredPaths = {}

\* C4 amended: the included list, skippedFiles and the paths of the 'Cannot
\* access file' entries recorded by discovery are pairwise disjoint at every
\* point, and all three buckets are disjoint when discovery ends; every 'Cannot
\* read file' entry recorded by a strategy names a path of the included list.
C4_DiscoveryBucketsDisjoint ==
  /\ IncludedPaths \cap SkippedPaths = {}
  /\ IncludedPaths \cap AccessErrorPaths = {}
  /\ SkippedPaths \cap ErroredPaths = {}
  /\ ReadErrorPaths \subseteq IncludedPaths
  /\ pc = "discovered" => IncludedPaths \cap ErroredPaths = {}
  /\ \A k, n \in 1..Len(files) : files[k] = files[n] => k = n

C4_Witness ==
  /\ ReadErrorPaths # {}
  /\ SkippedPaths # {}
  /\ IncludedPaths \ ReadErrorPaths # {}

DataFormats == {"json", "yaml", "toml", "msgpack", "jsonld", "dsl"}

C7_FormatRestored ==
  (opts.allFormats /\ pc \in {"loop", "done"}) => format = format0

\* C8: in an all-formats run the formats are attempted in the fixed order, each
\* attempted format has exactly one result (completed, dry-run or failed), a
\* result is 'failed' exactly for a format whose generation or write threw, and
\* the run goes on to the end: nine results, and a document for every format
\* that did not fail.
C8_FailureIsPerFormat ==
  (opts.allFormats /\ pc \in {"loop", "done"}) =>
    /\ Len(results) = i - 1
    /\ Len(results) <= Len(OUTPUT_FORMATS)
    /\ \A k \in 1..Len(results) :
         /\ results[k].format = OUTPUT_FORMATS[k]
         /\ results[k].status \in {"completed", "dry-run", "failed"}
         /\ results[k].status = "failed" <=> results[k].format \in thrown
         /\ results[k].status # "failed" => results[k].format \in DOMAIN docs
    /\ pc = "done" => Len(results) = Len(OUTPUT_FORMATS)
    /\ exitCode = 0

C8_Witness ==
  /\ opts.allFormats
  /\ pc = "done"
  /\ results[4].status = "failed"
  /\ results[9].status = "completed"
  /\ "mdopt" \in DOMAIN docs

\* C9: with dryRun set no output file is created or written, in single-format
\* and in all-formats runs.
C9_DryRunWritesNothing ==
  opts.dryRun => (written = <<>> /\ io \cap WriteCalls = {})

C9_Witness ==
  /\ opts.dryRun
  /\ opts.allFormats
  /\ pc = "done"
  /\ Len(results) = Len(OUTPUT_FORMATS)
  /\ \A k \in 1..Len(results) : results[k].status = "dry-run"

\* a path that reaches the size check of getFiles: not excluded by a pattern, by
\* the ignore-file or by the dependency filter, not binary, on the allowlist,
\* and stat succeeds
ReachesSizeCheck(p) ==
  /\ \A k \in 1..Len(p) : ~IsDotSegment(p[k])
  /\ ~GlobIgnored(opts.excludePatterns, p)
  /\ ~(gitignoreFilter.active /\ ignores(gitignoreFilter, p))
  /\ ~InDependencyDirectory(p)
  /\ ~isBinaryFile(toLowerCase(extname(p)))
  /\ isSourceFile(toLowerCase(extname(p)), p)
  /\ tree[p].statOk

SkippedEntriesOf(p) == {k \in 1..Len(skippedFiles) : skippedFiles[k].name = p}

\* C10 as claimed: every file larger than maxFileSize is absent from the included
\* list and has a skippedFiles entry; a file of exactly maxFileSize is included.
C10_EveryLargeFileSkipped ==
  pc # "start" =>
    \A p \in DOMAIN tree :
      /\ tree[p].size > opts.maxFileSize =>
           (p \notin IncludedPaths /\ SkippedEntriesOf(p) # {})
      /\ tree[p].size = opts.maxFileSize =>
           (p \in IncludedPaths /\ SkippedEntriesOf(p) = {})

\* C10 amended: every file that reaches the size check and is larger than
\* maxFileSize is absent from the included list and has exactly one skippedFiles
\* entry {name, size} with size the nearest integer to bytes/1024 (600 for
\* 600 KB); one of at most maxFileSize bytes is included and not recorded; a
\* file that does not reach the size check is neither included nor recorded.
C10_LargeFilesSkipped ==
  pc # "start" =>
    \A p \in DOMAIN tree :
      IF ReachesSizeCheck(p)
      THEN IF tree[p].size > opts.maxFileSize
           THEN /\ p \notin IncludedPaths
                /\ Cardinality(SkippedEntriesOf(p)) = 1
                /\ \A k \in SkippedEntriesOf(p) :
                     /\ 2 * BYTES_PER_KB * skippedFiles[k].size - BYTES_PER_KB
                          <= 2 * tree[p].size
                     /\ 2 * tree[p].size
                          < 2 * BYTES_PER_KB * skippedFiles[k].size + BYTES_PER_KB
                     /\ tree[p].size = 600 * BYTES_PER_KB => skippedFiles[k].size = 600
           ELSE p \in IncludedPaths /\ SkippedEntriesOf(p) = {}
      ELSE p \notin IncludedPaths /\ SkippedEntriesOf(p) = {}

C10_Witness ==
  /\ pc = "discovered"
  /\ opts.maxFileSize = 500 * BYTES_PER_KB
  /\ \E k \in 1..Len(skippedFiles) :
       skippedFiles[k] = [name |-> BigJs, size |-> 600]
  /\ IndexJs \in IncludedPaths
  /\ tree[IndexJs].size = opts.maxFileSize

\* C11: in every strategy, when reading an included file fails, an error entry
\* for that file is on the errors list, the file has no entry in the document,
\* and the strategy has still returned a document
C11_ReadFailureRecorded ==
  \A f \in DOMAIN docs :
    \A p \in IncludedPaths :
      ~Readable(tree, p) =>
        /\ p \in ReadErrorPaths
        /\ \A k \in 1..Len(docs[f].entries) : docs[f].entries[k].path # p

\* the tree without the files whose stat fails
StatOkPart(fsTree) == [p \in {q \in DOMAIN fsTree : fsTree[q].statOk} |-> fsTree[p]]

AccessErrorsFor(p) ==
  {k \in 1..Len(errors) : errors[k] = [kind |-> "Cannot access file", file |-> p]}

C13_SameTotalFiles ==
  opts.allFormats =>
    \E n \in {Len(getFiles(opts, tree, gitignoreFile).files)} :
      \A f \in DOMAIN docs : docs[f].totalFiles = n

\* nine documents over two included files, one of which could not be read
C13_Witness ==
  /\ pc = "done"
  /\ opts.allFormats
  /\ DOMAIN docs = Range(OUTPUT_FORMATS)
  /\ Len(files) >= 2
  /\ ReadErrorPaths # {}
  /\ \A f \in DOMAIN docs : docs[f].totalFiles = Len(files)

\* C14: the document of each of the four structured formats (json, yaml, toml,
\* jsonld) has the top-level entries metadata, analysis, files, skippedFiles
\* and errors
C14_StructuredTopLevelEntries ==
  \A f \in DOMAIN docs \cap {"json", "yaml", "toml", "jsonld"} :
    StructuredKeys \subseteq docs[f].keys

\* C15: in a run that produced both documents, decoding the packed payload of
\* the msgpack document gives the parsed payload of the plain-JSON document:
\* the same file count, files, skippedFiles and errors
C15_MsgpackDecodesToJson ==
  {"json", "msgpack"} \subseteq DOMAIN docs =>
    msgpackDecode(docs["msgpack"].packed) =
      Payload(docs["json"].totalFiles, docs["json"].entries,
              docs["json"].skippedFiles, docs["json"].errors)

\* C16: optimizeContent is idempotent: applied to its own result it returns
\* that result unchanged, for every text
C16_OptimizeContentIdempotent ==
  pc = "done" => docs["twice"] = docs["once"]

\* a segment of the path (a directory at any depth, or the file name) matches
\* one of the exclude patterns
UnderExcludePattern(p) ==
  \E pattern \in Range(opts.excludePatterns) :
    \E k \in 1..Len(p) : MatchSegment(pattern, p[k])

\* C17: no path that lies under a directory whose name matches an exclude
\* pattern, at top level or nested at any depth, and no file whose own name
\* matches an exclude pattern, is in the included set
C17_ExcludedNeverIncluded ==
  \A p \in DOMAIN tree : UnderExcludePattern(p) => p \notin IncludedPaths

\* discovery ran with the pattern 'tmp' and no ignore-file over a tree that holds
\* a small source file two levels down in src/tmp and one in the top-level tmp
C17_Witness ==
  /\ pc = "discovered"
  /\ opts.excludePatterns = <<"tmp">>
  /\ ~gitignoreFilter.active
  /\ {DeepJs, TmpJs} \subseteq DOMAIN tree
  /\ ~ExceedsMaxFileSize(tree[DeepJs].size, opts.maxFileSize)
  /\ ~ExceedsMaxFileSize(tree[TmpJs].size, opts.maxFileSize)
  /\ IndexJs \in IncludedPaths
  /\ DeepJs \notin IncludedPaths
  /\ TmpJs \notin IncludedPaths

\* a segment of the path is named by a rule of the ignore-file
NamedByIgnoreFile(p) == \E k \in 1..Len(p) : p[k] \in gitignoreFile.rules

IgnoreFileApplies ==
  opts.respectGitignore /\ gitignoreFile.exists /\ gitignoreFile.readable

GitignoreErrors ==
  {k \in 1..Len(errors) : errors[k].kind = "Failed to read .gitignore"}

\* C18: after discovery, a path matched by a rule of the ignore-file is excluded
\* when the ignore-file is present, readable and respected, whether or not an
\* exclude pattern matches it; a path matched by an exclude pattern is excluded
\* whether or not an ignore rule matches it; when respectGitignore is false or
\* no ignore-file is loaded the included set is the one the exclude patterns
\* alone give; and an unreadable ignore-file leaves one error entry while
\* discovery still returns
C18_UnionOfTheTwoFilters ==
  pc # "start" =>
    /\ \A p \in DOMAIN tree :
         /\ (IgnoreFileApplies /\ NamedByIgnoreFile(p)) => p \notin IncludedPaths
         /\ UnderExcludePattern(p) => p \notin IncludedPaths
    /\ ~IgnoreFileApplies =>
         /\ ~gitignoreFilter.active
         /\ \A p \in Range(GlobResult(tree, opts.excludePatterns)) :
              Verdict(NoFilter, tree, opts.maxFileSize, p) = "included" =>
                p \in IncludedPaths
    /\ Cardinality(GitignoreErrors) =
         IF opts.respectGitignore /\ gitignoreFile.exists /\ ~gitignoreFile.readable
         THEN 1 ELSE 0
    /\ pc = "discovered"

\* the ignore-file alone excludes tmp/gen.js, and the exclude pattern alone
\* excludes src/index.js
C18_Witness ==
  /\ pc = "discovered"
  /\ IgnoreFileApplies
  /\ opts.excludePatterns = <<"index.js">>
  /\ {TmpJs, IndexJs, BigJs} \subseteq DOMAIN tree
  /\ NamedByIgnoreFile(TmpJs) /\ ~UnderExcludePattern(TmpJs)
  /\ UnderExcludePattern(IndexJs) /\ ~NamedByIgnoreFile(IndexJs)
  /\ ~ExceedsMaxFileSize(tree[TmpJs].size, opts.maxFileSize)
  /\ ~ExceedsMaxFileSize(tree[IndexJs].size, opts.maxFileSize)
  /\ TmpJs \notin IncludedPaths
  /\ IndexJs \notin IncludedPaths
  /\ README \in IncludedPaths

\* the rank of a basename and of an extension, as the claim lists them
BasenameRank(base) ==
  CASE base = "README.md" -> 1
    [] base = "package.json" -> 2
    [] base = "tsconfig.json" -> 3
    [] base \in {"index.js", "index.ts", "main.js", "main.ts", "app.js", "app.ts"} -> 4
    [] OTHER -> 5
ExtensionRank(ext) ==
  CASE ext = ".json" -> 1 [] ext = ".js" -> 2 [] ext = ".ts" -> 3 [] ext = ".jsx" -> 4
    [] ext = ".tsx" -> 5 [] ext = ".css" -> 6 [] ext = ".scss" -> 7 [] ext = ".md" -> 8
    [] ext = ".txt" -> 9 [] OTHER -> 10

\* a precedes b by basename rank, then extension rank, then path comparison
InPriorityOrder(a, b) ==
  \/ BasenameRank(basename(a)) < BasenameRank(basename(b))
  \/ /\ BasenameRank(basename(a)) = BasenameRank(basename(b))
     /\ \/ ExtensionRank(extname(a)) < ExtensionRank(extname(b))
        \/ /\ ExtensionRank(extname(a)) = ExtensionRank(extname(b))
           /\ LocaleRank(a) < LocaleRank(b)

\* the orders in which the elements of a list of distinct paths can be handed over
Reorderings(list) ==
  {perm \in [1..Len(list) -> Range(list)] : Range(perm) = Range(list)}

\* C19: prioritizeFiles returns a permutation of its input, ordered by basename
\* rank, then extension rank, then path comparison; every order of the same
\* distinct paths gives the same result; and README.md, package.json,
\* src/index.js come out as [README.md, package.json, src/index.js]
C19_PrioritizeFilesOrder ==
  pc = "sorted" =>
    /\ Len(files) = Len(results)
    /\ Range(files) = Range(results)
    /\ \A k \in 1..(Len(files) - 1) : InPriorityOrder(files[k], files[k + 1])
    /\ \A perm \in Reorderings(results) : prioritizeFiles(perm) = files
    /\ Range(results) = {README, <<"package.json">>, IndexJs} =>
         files = <<README, <<"package.json">>, IndexJs>>

\* the three paths handed over in reverse order
C19_Witness ==
  /\ pc = "sorted"
  /\ results = <<IndexJs, <<"package.json">>, README>>
  /\ files = <<README, <<"package.json">>, IndexJs>>

\* the rules of groupFilesByPurpose in the order the claim gives them
PurposeRules ==
  <<"Configuration", "Tests", "Styles", "Entry Points", "Components", "API/Routes",
    "Models/Schema", "Utilities", "Other">>

RuleMatches(rule, p) ==
  CASE rule = "Configuration" -> isConfigFile(basename(p))
    [] rule = "Tests" ->
         DirIncludes(p, "test") \/ FileIncludes(p, ".test.") \/ FileIncludes(p, ".spec.")
    [] rule = "Styles" -> extname(p) \in {".css", ".scss", ".sass", ".less"}
    [] rule = "Entry Points" ->
         \E probe \in {"index.", "main.", "app."} : SegmentIncludes(basename(p), probe)
    [] rule = "Components" -> DirIncludes(p, "component")
    [] rule = "API/Routes" -> DirIncludes(p, "api") \/ DirIncludes(p, "route")
    [] rule = "Models/Schema" -> DirIncludes(p, "model") \/ DirIncludes(p, "schema")
    [] rule = "Utilities" -> DirIncludes(p, "util") \/ DirIncludes(p, "helper")
    [] rule = "Other" -> TRUE

FirstMatchingRule(p) ==
  PurposeRules[CHOOSE k \in 1..Len(PurposeRules) :
                 /\ RuleMatches(PurposeRules[k], p)
                 /\ \A j \in 1..(k - 1) : ~RuleMatches(PurposeRules[j], p)]

\* C20: groupFilesByPurpose puts every input file into exactly one of the nine
\* buckets, the one of the first rule that matches it in the order
\* configuration, test, stylesheet, entry point, component, API/route,
\* model/schema, utility, other; the buckets hold nothing but input files
C20_GroupsPartitionByFirstRule ==
  pc = "grouped" =>
    /\ DOMAIN docs = Range(PurposeRules)
    /\ \A g \in DOMAIN docs : Range(docs[g]) \subseteq Range(files)
    /\ \A p \in Range(files) :
         /\ Cardinality({g \in DOMAIN docs : p \in Range(docs[g])}) = 1
         /\ p \in Range(docs[FirstMatchingRule(p)])
    /\ \A g \in DOMAIN docs : Cardinality(Range(docs[g])) = Len(docs[g])

\* app.test.js, whose basename also matches the entry-point rule, is in Tests,
\* next to a file in Entry Points and one in Styles
C20_Witness ==
  /\ pc = "grouped"
  /\ Range(files) = {<<"app.test.js">>, IndexJs, <<"styles", "main.css">>}
  /\ RuleMatches("Entry Points", <<"app.test.js">>)
  /\ docs["Tests"] = << <<"app.test.js">> >>
  /\ docs["Entry Points"] = <<IndexJs>>
  /\ docs["Styles"] = << <<"styles", "main.css">> >>

\* some path of the set contains the text: a directory name followed by '/',
\* 'src/components/', or a file name
SomePathContains(paths, probe) ==
  \E f \in paths :
    CASE probe \in {"pages/", "app/"} ->
           \E k \in 1..(Len(f) - 1) : f[k] = (IF probe = "pages/" THEN "pages" ELSE "app")
      [] probe = "src/components/" ->
           \E k \in 1..(Len(f) - 2) : f[k] = "src" /\ f[k + 1] = "components"
      [] OTHER -> \E k \in 1..Len(f) : SegmentIncludes(f[k], probe)

ArchitectureOf(paths) ==
  CASE SomePathContains(paths, "pages/") \/ SomePathContains(paths, "app/") ->
         "Next.js/React App"
    [] OTHER ->
  CASE SomePathContains(paths, "src/components/") -> "React SPA"
    [] OTHER ->
  CASE SomePathContains(paths, "main.py") \/ SomePathContains(paths, "app.py") ->
         "Python Backend"
    [] OTHER ->
  CASE SomePathContains(paths, "server.js") -> "Node.js Server"
    [] OTHER -> "Unknown"

\* C21: analyzeProject gives the architecture label of the first rule, in the
\* fixed order, that some included path satisfies, 'Unknown' when none does;
\* the label, the technologies and the patterns are the same for every order
\* of the same paths
C21_ArchitectureByFirstRule ==
  pc = "analyzed" =>
    /\ docs["analysis"].architecture = ArchitectureOf(Range(files))
    /\ \A perm \in Reorderings(files) : analyzeProject(perm) = docs["analysis"]

\* a list that satisfies the first two rules and the third, analyzed as Next.js
C21_Witness ==
  /\ pc = "analyzed"
  /\ files = << <<"main.py">>, <<"src", "components", "Button.js">>, <<"app", "page.js">> >>
  /\ docs["analysis"].architecture = "Next.js/React App"
  /\ docs["analysis"].technologies = <<"Python">>

\* the path is one of /etc, /sys, /proc, <home>/.ssh or lies below one of them
UnderRestrictedLocation(p) ==
  \E restricted \in {<<"etc">>, <<"sys">>, <<"proc">>, <<"home", "user", ".ssh">>} :
    /\ Len(p) >= Len(restricted)
    /\ SubSeq(p, 1, Len(restricted)) = restricted

\* C22: once validateInputPath has run, a path at which nothing exists has ended
\* the process with 'Input path does not exist', one that is not a directory
\* with 'Input path is not a directory', a directory under a restricted location
\* with 'Access to system directory is restricted', each with exit code 1 and
\* before any discovery or generation call; every other path is returned
\* resolved
C22_ValidateInputPath ==
  pc # "constructing" =>
    /\ io = {}
    /\ CASE tree.kind = "missing" ->
              pc = "exited" /\ exitCode = 1 /\ errorMessage = "Input path does not exist"
         [] tree.kind = "file" ->
              pc = "exited" /\ exitCode = 1 /\ errorMessage = "Input path is not a directory"
         [] tree.kind = "directory" /\ UnderRestrictedLocation(tree.realPath) ->
              /\ pc = "exited" /\ exitCode = 1
              /\ errorMessage = "Access to system directory is restricted"
         [] OTHER -> pc = "start" /\ exitCode = 0 /\ docs["inputPath"] = tree.realPath


\* C30: every existing directory that is neither /etc, /sys, /proc, <home>/.ssh
\* nor below one of them is accepted and returned resolved, also when its path
\* merely begins with the text of a restricted location (/etcetera, /processing)
C30_PrefixSharingDirectoryAccepted ==
  (pc # "constructing" /\ tree.kind = "directory" /\ ~UnderRestrictedLocation(tree.realPath)) =>
    /\ pc = "start"
    /\ exitCode = 0
    /\ docs["inputPath"] = tree.realPath


\* the formats whose file entries carry fileType and isPackageInit
ClassifyingFormats == {"json", "yaml", "toml", "msgpack", "jsonld", "mdyaml", "dsl"}

\* the included files named __init__.py that hold no bytes and can be read
EmptyInits ==
  {p \in IncludedPaths : basename(p) = "__init__.py" /\ tree[p].size = 0 /\ Readable(tree, p)}

\* C23: in every document that classifies its entries, an included zero-byte
\* __init__.py has an entry of fileType 'python_package_marker' with
\* isPackageInit true, its path is in emptyInitFiles and counted in
\* emptyPackageMarkers, and no entry of errors names it
C23_EmptyInitIsPackageMarker ==
  \A f \in DOMAIN docs \cap ClassifyingFormats :
    \A p \in EmptyInits :
      /\ \E k \in 1..Len(docs[f].fileTypes) :
           docs[f].fileTypes[k] = [path |-> p, fileType |-> "python_package_marker",
                                   isEmpty |-> TRUE, isPackageInit |-> TRUE]
      /\ p \in Range(docs[f].emptyInitFiles)
      /\ f # "dsl" => docs[f].emptyPackageMarkers = Cardinality(EmptyInits)
      /\ p \notin ErroredPaths
      /\ \A k \in 1..Len(docs[f].errors) : docs[f].errors[k].file # p

C23_Witness ==
  /\ pc = "done"
  /\ DOMAIN docs = Range(OUTPUT_FORMATS)
  /\ EmptyInits = {<<"pkg", "__init__.py">>}
  /\ docs["json"].emptyInitFiles = << <<"pkg", "__init__.py">> >>
  /\ docs["json"].emptyPackageMarkers = 1

\* C29: in every document that classifies its entries, an entry has fileType
\* 'python_package_marker' exactly when its isPackageInit flag is true, also
\* for an __init__.py of non-zero size that holds only whitespace
C29_MarkerIffPackageInit ==
  \A f \in DOMAIN docs \cap ClassifyingFormats :
    \A k \in 1..Len(docs[f].fileTypes) :
      (docs[f].fileTypes[k].fileType = "python_package_marker")
        <=> docs[f].fileTypes[k].isPackageInit


\* the path was removed by one of the three exclusion filters of discovery
RemovedByExclusion(p) ==
  \/ UnderExcludePattern(p)
  \/ IgnoreFileApplies /\ NamedByIgnoreFile(p)
  \/ InDependencyDirectory(p)

\* C24: a path removed by an exclude pattern, by the ignore-file or by the
\* dependency-directory substring filter never reaches the per-file checks: it
\* has no skippedFiles entry and no errors entry, whatever its size and whether
\* or not it can be stat-ed
C24_FiltersBeforeFileChecks ==
  pc # "start" =>
    \A p \in DOMAIN tree :
      RemovedByExclusion(p) =>
        /\ p \notin SkippedPaths
        /\ p \notin ErroredPaths
        /\ p \notin IncludedPaths

\* discovery ran over a tree in which src/big.js cannot be stat-ed and is under
\* the exclude pattern 'src', tmp/gen.js is over the ceiling and named by the
\* ignore-file, and lib/node_modules/dep.js is over the ceiling
C24_Witness ==
  /\ pc = "discovered"
  /\ opts.excludePatterns = <<"src">>
  /\ IgnoreFileApplies
  /\ {BigJs, TmpJs, <<"lib", "node_modules", "dep.js">>} \subseteq DOMAIN tree
  /\ ~tree[BigJs].statOk
  /\ ExceedsMaxFileSize(tree[TmpJs].size, opts.maxFileSize)
  /\ NamedByIgnoreFile(TmpJs)
  /\ ExceedsMaxFileSize(tree[<<"lib", "node_modules", "dep.js">>].size, opts.maxFileSize)
  /\ InDependencyDirectory(<<"lib", "node_modules", "dep.js">>)
  /\ skippedFiles = <<>>
  /\ errors = <<>>


\* C25: whatever exclude list is passed, no included path lies inside a
\* directory named venv, env, .venv, virtualenv, site-packages, __pycache__ or
\* node_modules, at the top level of the root or nested at any depth
C25_NoDependencyDirectoryIncluded ==
  \A p \in IncludedPaths :
    \A k \in 1..(Len(p) - 1) :
      p[k] \notin {"venv", "env", ".venv", "virtualenv", "site-packages", "__pycache__",
                   "node_modules"}


\* an all-formats run that writes its documents and in which nothing has failed
CleanAllFormatsRun ==
  pc \in {"loop", "done"} /\ opts.allFormats /\ ~opts.dryRun /\ thrown = {}

\* C26: in a non-dry-run all-formats run without a failure, the documents are
\* generated and written one after the other in the fixed format order (the
\* document of a format is written before the next one is generated), and at
\* the end nine writes have happened, to nine pairwise distinct paths made of
\* the output path without its last extension and the extension of the format
C26_NineWritesInOrder ==
  CleanAllFormatsRun =>
    /\ Len(written) = i - 1
    /\ \A k \in 1..Len(written) :
         /\ written[k].format = OUTPUT_FORMATS[k]
         /\ Len(written[k].path) >= Len(opts.outputPath)
         /\ SubSeq(written[k].path, 1, Len(opts.outputPath) - 1)
              = SubSeq(opts.outputPath, 1, Len(opts.outputPath) - 1)
    /\ DOMAIN docs = {written[k].format : k \in 1..Len(written)}
    /\ Cardinality({written[k].path : k \in 1..Len(written)}) = Len(written)
    /\ pc = "done" => Len(written) = 9

C26_Witness ==
  /\ CleanAllFormatsRun
  /\ pc = "done"
  /\ Len(written) = 9
  /\ written[5].path = <<"codepack-output", "msgpack", "txt">>
  /\ written[9].path = <<"codepack-output", "optimized", "md">>


\* C27: no strategy changes the shared included-file list, so after discovery
\* the list is the one getFiles returned, and the files array of a json, yaml,
\* toml or jsonld document follows that order whether the document comes from a
\* single-format run or from an all-formats run after other strategies
C27_SharedListUnchanged ==
  pc \notin {"start", "exited"} =>
    \E discovered \in {getFiles(opts, tree, gitignoreFile).files} :
      /\ files = discovered
      /\ \A f \in DOMAIN docs \cap {"json", "yaml", "toml", "jsonld"} :
           [k \in 1..Len(docs[f].entries) |-> docs[f].entries[k].path]
             = SelectSeq(discovered, LAMBDA p : Readable(tree, p))


ReadErrorsFor(p) ==
  {k \in 1..Len(errors) : errors[k] = [kind |-> "Cannot read file", file |-> p]}

\* C28: at the end of a run each unreadable included file has exactly one entry
\* on the errors list, and in an all-formats run the errors lists embedded in
\* the json, yaml, jsonld and msgpack documents are equal
C28_OneErrorPerUnreadableFile ==
  pc = "done" =>
    /\ \A p \in IncludedPaths : ~Readable(tree, p) => Cardinality(ReadErrorsFor(p)) = 1
    /\ {"json", "yaml", "jsonld", "msgpack"} \subseteq DOMAIN docs =>
         /\ docs["yaml"].errors = docs["json"].errors
         /\ docs["jsonld"].errors = docs["json"].errors
         /\ docs["msgpack"].errors = docs["json"].errors

====
